---- MODULE Spec2Model ----
(***************************************************************************)
(* A model of the declaration index of mcp-whatsmeow (class AstParser):    *)
(* the line scanner, the memoized full-tree scan and the ranked search.    *)
(* Text is kept as text: a source line is a string, and the scanner's      *)
(* regular expressions are matched character by character.                 *)
(***************************************************************************)
EXTENDS Integers, Sequences, FiniteSets, TLC

VARIABLES
    fs,           \* the source tree on disk
    cachedTypes,  \* AstParser.cachedTypes: null or the memoized sequence
    scans,        \* number of full-tree passes extractAllTypes has started
    reads,        \* number of file reads extractAllTypes has made
    lastCall,     \* the last call made on the instance and what it gave back
    lines,        \* extractFromContent: the lines of the file being scanned
    index,        \* extractFromContent: the loop index (0-based, as in the code)
    results,      \* extractFromContent: the declarations pushed so far
    visited,      \* extractFromContent: the loop indexes whose line was tested
    whatsmeowDir, \* auto-updater: what WHATSMEOW_DIR holds on disk
    localSha,     \* auto-updater: HEAD of the local clone (0: none)
    savedSha,     \* auto-updater: the content of CACHE_FILE (0: no file)
    remoteSha,    \* auto-updater: the head of the repository on GitHub
    online,       \* auto-updater: GitHub can be reached
    server,       \* index.ts: the process is stopped, running, or failed (exit code 1)
    calls,        \* auto-updater: where each call of checkAndUpdate is
    updateResult  \* auto-updater: what the last call of checkAndUpdate returned

indexVars == <<fs, cachedTypes, scans, reads, lastCall>>
scanVars == <<lines, index, results, visited>>
updaterVars == <<whatsmeowDir, localSha, savedSha, remoteSha, online, server, calls, updateResult>>

vars == <<indexVars, scanVars, updaterVars>>

\* the callers of checkAndUpdate: the tool whatsmeow_update and the timer of
\* scheduleUpdateCheck
Callers == {"tool", "timer"}

\* a call that is not running
IdleCall == [pc |-> "idle", fetched |-> 0, second |-> FALSE, priorRemote |-> 0, priorHead |-> 0]

\* no call has returned yet
NoResult ==
    [caller |-> "none", updated |-> FALSE, error |-> "none", previousSha |-> 0,
     currentSha |-> 0, pulled |-> FALSE, remote |-> 0, head |-> 0, second |-> FALSE]

\* the auto-updater at rest, for the specifications that do not run it
NoUpdater ==
    /\ whatsmeowDir = "absent"
    /\ localSha = 0
    /\ savedSha = 0
    /\ remoteSha = 0
    /\ online = FALSE
    /\ server = "stopped"
    /\ calls = [c \in Callers |-> IdleCall]
    /\ updateResult = NoResult

UNDEFINED == "<undefined>"

(***************************************************************************)
(* Characters and strings.                                                 *)
(***************************************************************************)
UpperChars == "ABCDEFGHIJKLMNOPQRSTUVWXYZ"
LowerChars == "abcdefghijklmnopqrstuvwxyz"
DigitChars == "0123456789"

Max(a, b) == IF a >= b THEN a ELSE b
Min(a, b) == IF a <= b THEN a ELSE b

\* s[i] for a 1-based position, "" outside the string
At(s, i) == IF i >= 1 /\ i <= Len(s) THEN SubSeq(s, i, i) ELSE ""

\* the 1-based position of character c in s, 0 when absent
PosIn(c, s) ==
    IF \E i \in 1..Len(s) : SubSeq(s, i, i) = c
    THEN CHOOSE i \in 1..Len(s) : SubSeq(s, i, i) = c
    ELSE 0

CharsOf(s) == { SubSeq(s, i, i) : i \in 1..Len(s) }
UpperSet == CharsOf(UpperChars)
LowerSet == CharsOf(LowerChars)
DigitSet == CharsOf(DigitChars)
\* \w
WordSet == UpperSet \cup LowerSet \cup DigitSet \cup {"_"}
LowerOf == [c \in UpperSet |-> SubSeq(LowerChars, PosIn(c, UpperChars), PosIn(c, UpperChars))]

IsUpper(c) == c \in UpperSet
IsLower(c) == c \in LowerSet
IsDigit(c) == c \in DigitSet
IsWord(c) == c \in WordSet
\* \s
IsSpace(c) == c = " " \/ c = "\t"

LowerChar(c) == IF c \in UpperSet THEN LowerOf[c] ELSE c

RECURSIVE LowerFrom(_, _)
LowerFrom(s, i) ==
    IF i > Len(s) THEN "" ELSE LowerChar(SubSeq(s, i, i)) \o LowerFrom(s, i + 1)

\* String.prototype.toLowerCase
ToLowerCase(s) == LowerFrom(s, 1)

\* String.prototype.includes
Includes(s, t) ==
    \E i \in 0..(Len(s) - Len(t)) : SubSeq(s, i + 1, i + Len(t)) = t

\* the text at position i of s is lit
HasAt(s, i, lit) ==
    /\ i >= 1
    /\ i + Len(lit) - 1 <= Len(s)
    /\ SubSeq(s, i, i + Len(lit) - 1) = lit
StartsWith(s, lit) == HasAt(s, 1, lit)
EndsWith(s, lit) == Len(s) >= Len(lit) /\ HasAt(s, Len(s) - Len(lit) + 1, lit)

\* the first position >= i of s that holds no white space (Len(s)+1 at the end)
RECURSIVE SkipSpaces(_, _)
SkipSpaces(s, i) ==
    IF i <= Len(s) /\ IsSpace(SubSeq(s, i, i)) THEN SkipSpaces(s, i + 1) ELSE i

\* the first position >= i of s that holds no word character
RECURSIVE SkipWord(_, _)
SkipWord(s, i) ==
    IF i <= Len(s) /\ IsWord(SubSeq(s, i, i)) THEN SkipWord(s, i + 1) ELSE i

\* the last position <= i of s that holds no white space (0 when there is none)
RECURSIVE SkipSpacesBack(_, _)
SkipSpacesBack(s, i) ==
    IF i >= 1 /\ IsSpace(SubSeq(s, i, i)) THEN SkipSpacesBack(s, i - 1) ELSE i

\* String.prototype.trim
Trim(s) ==
    LET a == SkipSpaces(s, 1)
    IN  IF a > Len(s) THEN "" ELSE SubSeq(s, a, SkipSpacesBack(s, Len(s)))

\* the first position >= i where lit starts, 0 when there is none
FindFrom(s, lit, i) ==
    IF \E j \in i..(Len(s) - Len(lit) + 1) : HasAt(s, j, lit)
    THEN CHOOSE j \in i..(Len(s) - Len(lit) + 1) :
             HasAt(s, j, lit) /\ \A k \in i..(j - 1) : ~HasAt(s, k, lit)
    ELSE 0

\* the last position where lit starts, 0 when there is none
FindLast(s, lit) ==
    IF \E j \in 1..(Len(s) - Len(lit) + 1) : HasAt(s, j, lit)
    THEN CHOOSE j \in 1..(Len(s) - Len(lit) + 1) :
             HasAt(s, j, lit) /\ \A k \in (j + 1)..Len(s) : ~HasAt(s, k, lit)
    ELSE 0

\* Array.prototype.join
RECURSIVE Join(_, _)
Join(seq, sep) ==
    IF seq = <<>> THEN ""
    ELSE IF Len(seq) = 1 THEN seq[1]
    ELSE seq[1] \o sep \o Join(Tail(seq), sep)

\* String.prototype.split(/\r?\n/)
RECURSIVE SplitLines(_)
SplitLines(text) ==
    LET nl == FindFrom(text, "\n", 1)
    IN  IF nl = 0 THEN <<text>>
        ELSE LET cut == IF nl > 1 /\ At(text, nl - 1) = "\r" THEN nl - 2 ELSE nl - 1
             IN  <<SubSeq(text, 1, cut)>> \o SplitLines(SubSeq(text, nl + 1, Len(text)))

\* the number of occurrences of character c in s
CountChar(s, c) == Cardinality({ i \in 1..Len(s) : SubSeq(s, i, i) = c })

(***************************************************************************)
(* The seven declaration kinds (ExtractedKind).                            *)
(***************************************************************************)
ExtractedKind == {"interface", "struct", "type", "function", "method", "const", "variable"}

\* lines[i] with the code's 0-based index
LineAt(ls, i) == ls[i + 1]

\* Array.prototype.slice(1, -1)
SliceInner(seq) == IF Len(seq) <= 2 THEN <<>> ELSE SubSeq(seq, 2, Len(seq) - 1)

(***************************************************************************)
(* The scanner's regular expressions.  Each matcher takes the trimmed line *)
(* and gives [ok |-> whether it matches, name, rest |-> the captured       *)
(* groups].                                                                *)
(***************************************************************************)
NoMatch == [ok |-> FALSE, name |-> "", rest |-> ""]

\* /^kw\s+([A-Z]\w*)/ : the position after the name, 0 when there is no match
ExportedNameAfter(line, kw) ==
    LET j == SkipSpaces(line, Len(kw) + 1)
    IN  IF StartsWith(line, kw) /\ j > Len(kw) + 1 /\ IsUpper(At(line, j))
        THEN SkipWord(line, j)
        ELSE 0

\* /^type\s+([A-Z]\w*)\s+interface\s*\{/ and /^type\s+([A-Z]\w*)\s+struct\s*\{/
MatchTypeBlock(line, word) ==
    LET k == ExportedNameAfter(line, "type")
        j == SkipSpaces(line, 5)
        m == SkipSpaces(line, k)
    IN  IF k > 0 /\ m > k /\ HasAt(line, m, word)
             /\ At(line, SkipSpaces(line, m + Len(word))) = "{"
        THEN [ok |-> TRUE, name |-> SubSeq(line, j, k - 1), rest |-> ""]
        ELSE NoMatch

\* /^type\s+([A-Z]\w*)\s*(=)?\s*(.+)$/ ; (.+) needs a character, which the
\* greedy name gives back when nothing follows it
MatchTypeAlias(line) ==
    LET k == ExportedNameAfter(line, "type")
        j == SkipSpaces(line, 5)
        m == SkipSpaces(line, k)
        n == SkipSpaces(line, m + 1)
    IN  IF k = 0 THEN NoMatch
        ELSE IF k > Len(line)
        THEN IF k - 1 > j
             THEN [ok |-> TRUE, name |-> SubSeq(line, j, k - 2),
                   rest |-> SubSeq(line, k - 1, k - 1)]
             ELSE NoMatch
        ELSE IF At(line, m) = "=" /\ n <= Len(line)
        THEN [ok |-> TRUE, name |-> SubSeq(line, j, k - 1),
              rest |-> SubSeq(line, n, Len(line))]
        ELSE [ok |-> TRUE, name |-> SubSeq(line, j, k - 1),
              rest |-> SubSeq(line, m, Len(line))]

\* /^func\s*\(([^)]+)\)\s*([A-Z]\w*)\s*\(/
MatchMethod(line) ==
    LET j == SkipSpaces(line, 5)
        c == FindFrom(line, ")", j + 1)
        n == SkipSpaces(line, c + 1)
        k == SkipWord(line, n)
    IN  IF StartsWith(line, "func") /\ At(line, j) = "(" /\ c > j + 1
             /\ IsUpper(At(line, n)) /\ At(line, SkipSpaces(line, k)) = "("
        THEN [ok |-> TRUE, name |-> SubSeq(line, n, k - 1), rest |-> ""]
        ELSE NoMatch

\* /^func\s+([A-Z]\w*)\s*\(/
MatchFunction(line) ==
    LET k == ExportedNameAfter(line, "func")
        j == SkipSpaces(line, 5)
    IN  IF k > 0 /\ At(line, SkipSpaces(line, k)) = "("
        THEN [ok |-> TRUE, name |-> SubSeq(line, j, k - 1), rest |-> ""]
        ELSE NoMatch

\* /^const\s*\(/ and /^var\s*\(/
MatchGroupOpen(line, kw) ==
    StartsWith(line, kw) /\ At(line, SkipSpaces(line, Len(kw) + 1)) = "("

\* /^const\s+([A-Z]\w*)\b(.*)$/ and /^var\s+([A-Z]\w*)\b(.*)$/
MatchSingle(line, kw) ==
    LET k == ExportedNameAfter(line, kw)
        j == SkipSpaces(line, Len(kw) + 1)
    IN  IF k > 0
        THEN [ok |-> TRUE, name |-> SubSeq(line, j, k - 1),
              rest |-> SubSeq(line, k, Len(line))]
        ELSE NoMatch

\* /^([A-Za-z_]\w*)/ : the position after the identifier, 0 when there is none
IdentEnd(line) ==
    IF IsUpper(At(line, 1)) \/ IsLower(At(line, 1)) \/ At(line, 1) = "_"
    THEN SkipWord(line, 1)
    ELSE 0

\* /^([A-Za-z_]\w*)\s*\((.*)\)\s*(.*)$/ ; rest is the third group
MatchInterfaceMethod(line) ==
    LET k == IdentEnd(line)
        o == SkipSpaces(line, k)
        c == FindLast(line, ")")
    IN  IF k > 0 /\ At(line, o) = "(" /\ c > o
        THEN [ok |-> TRUE, name |-> SubSeq(line, 1, k - 1),
              rest |-> SubSeq(line, SkipSpaces(line, c + 1), Len(line))]
        ELSE NoMatch

\* /^([A-Za-z_]\w*)\s+(.+)$/
MatchStructField(line) ==
    LET k == IdentEnd(line)
        m == SkipSpaces(line, k)
    IN  IF k > 0 /\ m > k /\ m <= Len(line)
        THEN [ok |-> TRUE, name |-> SubSeq(line, 1, k - 1),
              rest |-> SubSeq(line, m, Len(line))]
        ELSE NoMatch

\* /^([A-Za-z_]\w*)\b(.*)$/
MatchBlockMember(line) ==
    LET k == IdentEnd(line)
    IN  IF k > 0
        THEN [ok |-> TRUE, name |-> SubSeq(line, 1, k - 1),
              rest |-> SubSeq(line, k, Len(line))]
        ELSE NoMatch

\* raw.replace(/\s*\/\/.*$/, '').trim()
StripLineComment(raw) ==
    LET q == FindFrom(raw, "//", 1)
    IN  Trim(IF q = 0 THEN raw ELSE SubSeq(raw, 1, q - 1))

\* text || undefined
OrUndefined(text) == IF text = "" THEN UNDEFINED ELSE text

(***************************************************************************)
(* extractDocAbove                                                         *)
(***************************************************************************)
\* a mutation of DocOfLineComment: the comment keeps its marker
KeepsMarker(trimmed) == trimmed

\* trimmed.replace(/^\/\/\s?/, '')
DocOfLineComment(trimmed) ==
    SubSeq(trimmed, IF IsSpace(At(trimmed, 3)) THEN 4 ELSE 3, Len(trimmed))

\* the first position >= i of s that holds no '*'
RECURSIVE SkipStars(_, _)
SkipStars(s, i) ==
    IF i <= Len(s) /\ SubSeq(s, i, i) = "*" THEN SkipStars(s, i + 1) ELSE i

\* trimmed.replace(/^\/\*+\s?/, '').replace(/^\*\s?/, '').replace(/\*\/$/, '').trim()
DocOfBlockComment(trimmed) ==
    LET a == IF HasAt(trimmed, 1, "/*")
             THEN LET e == SkipStars(trimmed, 2)
                  IN  SubSeq(trimmed, IF IsSpace(At(trimmed, e)) THEN e + 1 ELSE e, Len(trimmed))
             ELSE trimmed
        b == IF StartsWith(a, "*")
             THEN SubSeq(a, IF IsSpace(At(a, 2)) THEN 3 ELSE 2, Len(a))
             ELSE a
        c == IF EndsWith(b, "*/") THEN SubSeq(b, 1, Len(b) - 2) ELSE b
    IN  Trim(c)

RECURSIVE DocWalk(_, _, _)
DocWalk(ls, cursor, docs) ==
    IF cursor < 0 THEN docs
    ELSE LET trimmed == Trim(LineAt(ls, cursor))
         IN  IF trimmed = ""
             THEN IF docs = <<>> THEN DocWalk(ls, cursor - 1, docs) ELSE docs
             ELSE IF StartsWith(trimmed, "//")
             THEN DocWalk(ls, cursor - 1, <<DocOfLineComment(trimmed)>> \o docs)
             ELSE IF EndsWith(trimmed, "*/") \/ StartsWith(trimmed, "/*") \/ StartsWith(trimmed, "*")
             THEN DocWalk(ls, cursor - 1, <<DocOfBlockComment(trimmed)>> \o docs)
             ELSE docs

extractDocAbove(ls, lineIndex) ==
    OrUndefined(Trim(Join(DocWalk(ls, lineIndex - 1, <<>>), " ")))

(***************************************************************************)
(* captureBracedBlock, captureParenBlock, captureFunctionSignature         *)
(***************************************************************************)
\* a mutation of CaptureEnd: the block always runs to the last line
RunsToLastLine(ls, i, balance, started, open, close) == Len(ls) - 1

\* the index of the line that ends the block: the first line at whose end
\* the balance is zero after an open delimiter was seen, or the last line
RECURSIVE CaptureEnd(_, _, _, _, _, _)
CaptureEnd(ls, i, balance, started, open, close) ==
    IF i >= Len(ls) THEN Len(ls) - 1
    ELSE LET line == LineAt(ls, i)
             b == balance + CountChar(line, open) - CountChar(line, close)
             s == started \/ CountChar(line, open) > 0
         IN  IF s /\ b = 0 THEN i
             ELSE CaptureEnd(ls, i + 1, b, s, open, close)

CaptureBlock(ls, startLine, open, close) ==
    LET endLine == CaptureEnd(ls, startLine, 0, FALSE, open, close)
    IN  [text |-> Join(SubSeq(ls, startLine + 1, endLine + 1), "\n"), endLine |-> endLine]

captureBracedBlock(ls, startLine) == CaptureBlock(ls, startLine, "{", "}")

captureParenBlock(ls, startLine) == CaptureBlock(ls, startLine, "(", ")")

\* a mutation of SignatureEnd: the loop stops at its first line
StopsAtFirstLine(ls, startLine, i, parenBalance) == i

\* the index of the last line the signature loop pushes
RECURSIVE SignatureEnd(_, _, _, _)
SignatureEnd(ls, startLine, i, parenBalance) ==
    LET line == LineAt(ls, i)
        b == parenBalance + CountChar(line, "(") - CountChar(line, ")")
    IN  IF Includes(line, "{") THEN i
        ELSE IF b <= 0 /\ EndsWith(Trim(line), ")") THEN i
        ELSE IF i - startLine > 12 THEN i
        ELSE IF i + 1 >= Len(ls) THEN i
        ELSE SignatureEnd(ls, startLine, i + 1, b)

TrimAll(seq) == [i \in 1..Len(seq) |-> Trim(seq[i])]

captureFunctionSignature(ls, startLine) ==
    LET last == SignatureEnd(ls, startLine, startLine, 0)
    IN  Join(TrimAll(SubSeq(ls, startLine + 1, last + 1)), " ")

\* text.split(/\r?\n/)[0].trim()
firstLine(text) == Trim(SplitLines(text)[1])

(***************************************************************************)
(* The member sub-parsers.                                                 *)
(***************************************************************************)
\* a PropertyInfo, kept to its name, type and isMethod
PropertyInfo(name, type, isMethod) == [name |-> name, type |-> type, isMethod |-> isMethod]

RECURSIVE InterfaceMethodsOf(_)
InterfaceMethodsOf(ls) ==
    IF ls = <<>> THEN <<>>
    ELSE LET trimmed == Trim(Head(ls))
             m == MatchInterfaceMethod(trimmed)
         IN  IF trimmed = "" \/ StartsWith(trimmed, "//") \/ ~m.ok
             THEN InterfaceMethodsOf(Tail(ls))
             ELSE <<PropertyInfo(m.name, IF m.rest = "" THEN "void" ELSE m.rest, TRUE)>>
                      \o InterfaceMethodsOf(Tail(ls))

parseInterfaceMethods(blockText) == InterfaceMethodsOf(SliceInner(SplitLines(blockText)))

RECURSIVE StructFieldsOf(_)
StructFieldsOf(ls) ==
    IF ls = <<>> THEN <<>>
    ELSE LET cleaned == StripLineComment(Head(ls))
             m == MatchStructField(cleaned)
         IN  IF cleaned = "" \/ ~m.ok
             THEN StructFieldsOf(Tail(ls))
             ELSE <<PropertyInfo(m.name, Trim(m.rest), FALSE)>> \o StructFieldsOf(Tail(ls))

parseStructFields(blockText) == StructFieldsOf(SliceInner(SplitLines(blockText)))

\* the members of block lines i .. Len(ls)-2 (0-based), each with lineNumber i + 1
RECURSIVE BlockMembersFrom(_, _)
BlockMembersFrom(ls, i) ==
    IF i >= Len(ls) - 1 THEN <<>>
    ELSE LET line == StripLineComment(LineAt(ls, i))
             m == MatchBlockMember(line)
         IN  IF line = "" \/ ~m.ok
             THEN BlockMembersFrom(ls, i + 1)
             ELSE <<[name |-> m.name, signature |-> line,
                     value |-> OrUndefined(Trim(m.rest)), lineNumber |-> i + 1]>>
                      \o BlockMembersFrom(ls, i + 1)

parseConstVarBlockMembers(blockText) == BlockMembersFrom(SplitLines(blockText), 1)

(***************************************************************************)
(* Paths: a file is named by its path below the repository root.           *)
(***************************************************************************)
getRelativePath(filePath) == filePath

\* relative.split('/') : parts.length > 1 ? parts[0] : 'root'
getModuleName(filePath) ==
    LET slash == FindFrom(getRelativePath(filePath), "/", 1)
    IN  IF slash > 0 THEN SubSeq(getRelativePath(filePath), 1, slash - 1) ELSE "root"

(***************************************************************************)
(* extractFromContent: one iteration of the loop over the lines, and the   *)
(* whole loop.                                                             *)
(***************************************************************************)
ExtractedType(name, kind, filePath, signature, fullSignature, methods, properties, docs, value, lineNumber) ==
    [name |-> name, kind |-> kind, exported |-> TRUE,
     file |-> getRelativePath(filePath), module |-> getModuleName(filePath),
     signature |-> signature, fullSignature |-> fullSignature,
     methods |-> methods, properties |-> properties,
     docs |-> docs, value |-> value, lineNumber |-> lineNumber]

\* a grouped member is kept or not: the test /^[A-Z]/ of member.name, with a
\* variant that keeps every member
KeepsEveryMember(name) == TRUE

IsExportedMember(name) == IsUpper(At(name, 1))

\* the declarations of a const ( ... ) or var ( ... ) block
RECURSIVE GroupedDeclarations(_, _, _, _)
GroupedDeclarations(members, kind, filePath, docs) ==
    IF members = <<>> THEN <<>>
    ELSE LET member == Head(members)
         IN  (IF ~IsExportedMember(member.name) THEN <<>>
              ELSE <<ExtractedType(member.name, kind, filePath, member.signature, UNDEFINED,
                                   <<>>, <<>>, docs, member.value, member.lineNumber)>>)
                 \o GroupedDeclarations(Tail(members), kind, filePath, docs)

\* where the loop goes on after a block captured at index i: index = block.endLine,
\* then the loop's index++ ; with a variant that does not move past the block
ResumesOnNextLine(i, block) == i + 1

ResumeAfterBlock(i, block) == block.endLine + 1

\* the iteration at loop index i: what it pushes, and the index of the next iteration
ScanStep(ls, i, filePath) ==
    LET line == Trim(LineAt(ls, i))
        docs == extractDocAbove(ls, i)
        interfaceMatch == MatchTypeBlock(line, "interface")
        structMatch == MatchTypeBlock(line, "struct")
        typeMatch == MatchTypeAlias(line)
        methodMatch == MatchMethod(line)
        functionMatch == MatchFunction(line)
        constSingle == MatchSingle(line, "const")
        varSingle == MatchSingle(line, "var")
        braced == captureBracedBlock(ls, i)
        paren == captureParenBlock(ls, i)
    IN  IF line = "" THEN [emit |-> <<>>, next |-> i + 1]
        ELSE IF interfaceMatch.ok
        THEN [emit |-> <<ExtractedType(interfaceMatch.name, "interface", filePath,
                                       firstLine(braced.text), braced.text,
                                       parseInterfaceMethods(braced.text), <<>>,
                                       docs, UNDEFINED, i + 1)>>,
              next |-> ResumeAfterBlock(i, braced)]
        ELSE IF structMatch.ok
        THEN [emit |-> <<ExtractedType(structMatch.name, "struct", filePath,
                                       firstLine(braced.text), braced.text,
                                       <<>>, parseStructFields(braced.text),
                                       docs, UNDEFINED, i + 1)>>,
              next |-> ResumeAfterBlock(i, braced)]
        ELSE IF typeMatch.ok /\ ~Includes(line, "interface{") /\ ~Includes(line, "struct{")
        THEN [emit |-> <<ExtractedType(typeMatch.name, "type", filePath, line, UNDEFINED,
                                       <<>>, <<>>, docs, Trim(typeMatch.rest), i + 1)>>,
              next |-> i + 1]
        ELSE IF methodMatch.ok
        THEN [emit |-> <<ExtractedType(methodMatch.name, "method", filePath,
                                       captureFunctionSignature(ls, i), UNDEFINED,
                                       <<>>, <<>>, docs, UNDEFINED, i + 1)>>,
              next |-> i + 1]
        ELSE IF functionMatch.ok
        THEN [emit |-> <<ExtractedType(functionMatch.name, "function", filePath,
                                       captureFunctionSignature(ls, i), UNDEFINED,
                                       <<>>, <<>>, docs, UNDEFINED, i + 1)>>,
              next |-> i + 1]
        ELSE IF MatchGroupOpen(line, "const")
        THEN [emit |-> GroupedDeclarations(parseConstVarBlockMembers(paren.text),
                                           "const", filePath, docs),
              next |-> ResumeAfterBlock(i, paren)]
        ELSE IF MatchGroupOpen(line, "var")
        THEN [emit |-> GroupedDeclarations(parseConstVarBlockMembers(paren.text),
                                           "variable", filePath, docs),
              next |-> ResumeAfterBlock(i, paren)]
        ELSE IF constSingle.ok
        THEN [emit |-> <<ExtractedType(constSingle.name, "const", filePath, line, UNDEFINED,
                                       <<>>, <<>>, docs, OrUndefined(Trim(constSingle.rest)),
                                       i + 1)>>,
              next |-> i + 1]
        ELSE IF varSingle.ok
        THEN [emit |-> <<ExtractedType(varSingle.name, "variable", filePath, line, UNDEFINED,
                                       <<>>, <<>>, docs, OrUndefined(Trim(varSingle.rest)),
                                       i + 1)>>,
              next |-> i + 1]
        ELSE [emit |-> <<>>, next |-> i + 1]

RECURSIVE ScanFrom(_, _, _)
RECURSIVE ScanOn(_, _, _)
ScanFrom(ls, i, filePath) ==
    IF i >= Len(ls) THEN <<>> ELSE ScanOn(ls, ScanStep(ls, i, filePath), filePath)

\* the declarations of one iteration, then the loop from where it resumes
ScanOn(ls, step, filePath) == step.emit \o ScanFrom(ls, step.next, filePath)

extractFromContent(filePath, content) == ScanFrom(SplitLines(content), 0, filePath)

(***************************************************************************)
(* The source tree.  A directory is the sequence of its entries in the     *)
(* order readdirSync gives them; the root may not exist.                    *)
(***************************************************************************)
NoTree == [exists |-> FALSE, entries |-> <<>>]

RootDir(entries) == [exists |-> TRUE, entries |-> entries]

FileEntry(name, content, readable) ==
    [name |-> name, type |-> "file", children |-> <<>>, content |-> content, readable |-> readable]

DirEntry(name, children) ==
    [name |-> name, type |-> "dir", children |-> children, content |-> "", readable |-> TRUE]

\* path.join(dirPath, entry.name), relative to the repository root
JoinPath(dirPath, name) == IF dirPath = "" THEN name ELSE dirPath \o "/" \o name

\* a mutation of IsGoSource: every name in .go is taken, the tests too
IsGoFile(name) == EndsWith(name, ".go")

\* entry.name.endsWith('.go') && !entry.name.endsWith('_test.go')
IsGoSource(name) == EndsWith(name, ".go") /\ ~EndsWith(name, "_test.go")

\* the files listGoFiles returns for a directory (each path with the file it names)
RECURSIVE ListEntries(_, _)
ListEntries(entries, dirPath) ==
    IF entries = <<>> THEN <<>>
    ELSE LET entry == Head(entries)
             fullPath == JoinPath(dirPath, entry.name)
         IN  (IF StartsWith(entry.name, ".") \/ entry.name = "vendor" THEN <<>>
              ELSE IF entry.type = "dir" THEN ListEntries(entry.children, fullPath)
              ELSE IF entry.type = "file" /\ IsGoSource(entry.name)
              THEN <<[path |-> fullPath, content |-> entry.content, readable |-> entry.readable]>>
              ELSE <<>>)
                 \o ListEntries(Tail(entries), dirPath)

listGoFiles(tree) == IF ~tree.exists THEN <<>> ELSE ListEntries(tree.entries, "")

(***************************************************************************)
(* extractAllTypes                                                         *)
(***************************************************************************)
\* this.cachedTypes: null, or an array of declarations
NullCache == [null |-> TRUE, types |-> <<>>]

CacheOf(types) == [null |-> FALSE, types |-> types]

\* this.cachedTypes is truthy: an array is, the empty one too; with a variant
\* that takes the empty array for no cache
IsNonEmptyCache(cache) == ~cache.null /\ cache.types # <<>>

IsCached(cache) == ~cache.null

\* the loop over the files: whether a read threw, what was extracted before it
\* did, and how many reads were made
RECURSIVE ReadLoop(_, _, _)
ReadLoop(files, extracted, count) ==
    IF files = <<>> THEN [threw |-> FALSE, extracted |-> extracted, reads |-> count]
    ELSE IF ~Head(files).readable THEN [threw |-> TRUE, extracted |-> extracted, reads |-> count + 1]
    ELSE ReadLoop(Tail(files),
                  extracted \o extractFromContent(Head(files).path, Head(files).content),
                  count + 1)

\* what this.cachedTypes holds after the loop: the assignment is reached only when
\* no read threw; with a variant that stores what the loop had extracted
StoresPartialScan(loop) == CacheOf(loop.extracted)

CacheAfterScan(loop) == IF loop.threw THEN NullCache ELSE CacheOf(loop.extracted)

\* the outcome of a call that ran the loop
ScanOutcome(loop) ==
    [threw |-> loop.threw,
     value |-> IF loop.threw THEN <<>> ELSE loop.extracted,
     cache |-> CacheAfterScan(loop),
     scans |-> 1,
     reads |-> loop.reads]

\* extractAllTypes on an instance whose cache is cache, over tree
ExtractAllTypesCall(cache, tree) ==
    IF IsCached(cache)
    THEN [threw |-> FALSE, value |-> cache.types, cache |-> cache, scans |-> 0, reads |-> 0]
    ELSE ScanOutcome(ReadLoop(listGoFiles(tree), <<>>, 0))

(***************************************************************************)
(* searchByContext                                                         *)
(***************************************************************************)
WeightNameExact == 25
WeightName == 12
WeightSignature == 6
WeightDocs == 5
\* a file-path weight out of its place in the order
WeightAboveName == WeightName + 1

WeightFile == 4
WeightModule == 5
WeightKind == 4
DefaultLimit == 20

\* normalized.split(/\s+/).filter(Boolean), from position i of s
RECURSIVE TermsFrom(_, _)
TermsFrom(s, i) ==
    LET a == SkipSpaces(s, i)
        b == IF FindFrom(s, " ", a) = 0 THEN FindFrom(s, "\t", a)
             ELSE IF FindFrom(s, "\t", a) = 0 THEN FindFrom(s, " ", a)
             ELSE Min(FindFrom(s, " ", a), FindFrom(s, "\t", a))
    IN  IF a > Len(s) THEN <<>>
        ELSE IF b = 0 THEN <<SubSeq(s, a, Len(s))>>
        ELSE <<SubSeq(s, a, b - 1)>> \o TermsFrom(s, b)

QueryTerms(query) == TermsFrom(Trim(ToLowerCase(query)), 1)

\* a filter is applied when it is truthy: given, and not the empty string
Truthy(value) == value # UNDEFINED /\ value # ""

NoFilters == [module |-> UNDEFINED, kind |-> UNDEFINED]

\* with a variant that filters nothing
IgnoresFilters(types, filters) == types

ApplyFilters(types, filters) ==
    LET byModule == IF Truthy(filters.module)
                    THEN SelectSeq(types, LAMBDA type :
                             ToLowerCase(type.module) = ToLowerCase(filters.module))
                    ELSE types
    IN  IF Truthy(filters.kind)
        THEN SelectSeq(byModule, LAMBDA type : type.kind = filters.kind)
        ELSE byModule

\* the fields of a declaration as the loop compares them: in lower case
LowerFields(type) ==
    [name |-> ToLowerCase(type.name),
     signature |-> ToLowerCase(type.signature),
     docs |-> ToLowerCase(IF type.docs = UNDEFINED THEN "" ELSE type.docs),
     file |-> ToLowerCase(type.file),
     module |-> ToLowerCase(type.module),
     kind |-> ToLowerCase(type.kind)]

\* a variant of the tests below in which the first field that matches suppresses
\* the others
FirstFieldOnly(fields, term) ==
    IF Includes(fields.name, term) THEN [score |-> WeightName, labels |-> <<"name">>]
    ELSE IF Includes(fields.signature, term) THEN [score |-> WeightSignature, labels |-> <<"signature">>]
    ELSE IF Includes(fields.docs, term) THEN [score |-> WeightDocs, labels |-> <<"docs">>]
    ELSE IF Includes(fields.file, term) THEN [score |-> WeightFile, labels |-> <<"file">>]
    ELSE IF Includes(fields.module, term) THEN [score |-> WeightModule, labels |-> <<"module">>]
    ELSE IF Includes(fields.kind, term) THEN [score |-> WeightKind, labels |-> <<"kind">>]
    ELSE [score |-> 0, labels |-> <<>>]

\* the six substring tests of one pass of the loop over the terms: the score
\* added and the labels pushed
FieldMatches(fields, term) ==
    LET hit(field, weight, label) ==
            IF Includes(field, term)
            THEN [score |-> weight, labels |-> <<label>>]
            ELSE [score |-> 0, labels |-> <<>>]
        hits == << hit(fields.name, WeightName, "name"),
                   hit(fields.signature, WeightSignature, "signature"),
                   hit(fields.docs, WeightDocs, "docs"),
                   hit(fields.file, WeightFile, "file"),
                   hit(fields.module, WeightModule, "module"),
                   hit(fields.kind, WeightKind, "kind") >>
    IN  [score |-> hits[1].score + hits[2].score + hits[3].score
                       + hits[4].score + hits[5].score + hits[6].score,
         labels |-> hits[1].labels \o hits[2].labels \o hits[3].labels
                        \o hits[4].labels \o hits[5].labels \o hits[6].labels]

\* one pass of the loop: an exact name match ends it; with a variant in which
\* the pass goes on to the substring tests
ExactMatchFallsThrough(fields, term) ==
    IF fields.name = term
    THEN [score |-> WeightNameExact, labels |-> <<"name-exact">> \o FieldMatches(fields, term).labels]
    ELSE FieldMatches(fields, term)

TermPass(fields, term) ==
    IF fields.name = term
    THEN [score |-> WeightNameExact, labels |-> <<"name-exact">>]
    ELSE FieldMatches(fields, term)

\* Array.from(new Set(seq)): first occurrences, in order
RECURSIVE Dedupe(_)
Dedupe(seq) ==
    IF seq = <<>> THEN <<>>
    ELSE LET front == Dedupe(SubSeq(seq, 1, Len(seq) - 1))
             last == seq[Len(seq)]
         IN  IF \E i \in 1..Len(front) : front[i] = last THEN front ELSE Append(front, last)

RECURSIVE ScoreTerms(_, _)
ScoreTerms(fields, terms) ==
    IF terms = <<>> THEN [score |-> 0, labels |-> <<>>]
    ELSE LET first == TermPass(fields, Head(terms))
             rest == ScoreTerms(fields, Tail(terms))
         IN  [score |-> first.score + rest.score, labels |-> first.labels \o rest.labels]

\* the ranked list before sorting
RECURSIVE RankAll(_, _)
RankAll(types, terms) ==
    IF types = <<>> THEN <<>>
    ELSE LET scored == ScoreTerms(LowerFields(Head(types)), terms)
         IN  (IF terms = <<>> \/ scored.score > 0
              THEN <<[type |-> Head(types), score |-> scored.score,
                      matchedIn |-> Dedupe(scored.labels)]>>
              ELSE <<>>)
                 \o RankAll(Tail(types), terms)

\* String.prototype.localeCompare on identifiers and paths: punctuation before
\* digits before letters, letters compare without case first; strings equal but
\* for case put the lower-case letter first
CollationOrder == "_./0123456789abcdefghijklmnopqrstuvwxyz"
PrimaryWeight == [c \in WordSet \cup {".", "/"} |-> PosIn(LowerChar(c), CollationOrder)]

RECURSIVE ComparePrimary(_, _, _)
ComparePrimary(a, b, i) ==
    IF i > Len(a) /\ i > Len(b) THEN 0
    ELSE IF i > Len(a) THEN -1
    ELSE IF i > Len(b) THEN 1
    ELSE IF PrimaryWeight[At(a, i)] < PrimaryWeight[At(b, i)] THEN -1
    ELSE IF PrimaryWeight[At(a, i)] > PrimaryWeight[At(b, i)] THEN 1
    ELSE ComparePrimary(a, b, i + 1)

RECURSIVE CompareCase(_, _, _)
CompareCase(a, b, i) ==
    IF i > Len(a) THEN 0
    ELSE IF At(a, i) = At(b, i) THEN CompareCase(a, b, i + 1)
    ELSE IF IsLower(At(a, i)) THEN -1
    ELSE 1

localeCompare(a, b) ==
    IF ComparePrimary(a, b, 1) # 0 THEN ComparePrimary(a, b, 1) ELSE CompareCase(a, b, 1)

\* a comparator that looks at the score alone
CompareScores(left, right) == right.score - left.score

\* the comparator of the sort
CompareRanked(left, right) ==
    IF right.score # left.score THEN right.score - left.score
    ELSE localeCompare(left.type.name, right.type.name)

\* a sort that is not stable: an item goes before the items that compare equal
\* to it
InsertsBeforeEquals(sorted, item) ==
    LET after == { i \in 1..Len(sorted) : CompareRanked(sorted[i], item) < 0 }
        k == IF after = {} THEN 0 ELSE CHOOSE i \in after : \A j \in after : j <= i
    IN  SubSeq(sorted, 1, k) \o <<item>> \o SubSeq(sorted, k + 1, Len(sorted))

\* Array.prototype.sort, which is stable: an item goes after the items that
\* do not compare greater than it
InsertRanked(sorted, item) ==
    LET after == { i \in 1..Len(sorted) : CompareRanked(sorted[i], item) <= 0 }
        k == IF after = {} THEN 0 ELSE CHOOSE i \in after : \A j \in after : j <= i
    IN  SubSeq(sorted, 1, k) \o <<item>> \o SubSeq(sorted, k + 1, Len(sorted))

RECURSIVE SortRanked(_)
SortRanked(ranked) ==
    IF ranked = <<>> THEN <<>>
    ELSE InsertRanked(SortRanked(SubSeq(ranked, 1, Len(ranked) - 1)), ranked[Len(ranked)])

\* Array.prototype.slice(0, n)
SliceTo(seq, n) == SubSeq(seq, 1, Min(Max(n, 0), Len(seq)))

\* searchByContext over the declarations the index holds
RankTypes(all, query, limit, filters) ==
    SliceTo(SortRanked(RankAll(ApplyFilters(all, filters), QueryTerms(query))), Max(1, limit))

(***************************************************************************)
(* Lists of names: Array.from(new Set(list)).sort(localeCompare)           *)
(***************************************************************************)
InsertName(sorted, item) ==
    LET after == { i \in 1..Len(sorted) : localeCompare(sorted[i], item) <= 0 }
        k == IF after = {} THEN 0 ELSE CHOOSE i \in after : \A j \in after : j <= i
    IN  SubSeq(sorted, 1, k) \o <<item>> \o SubSeq(sorted, k + 1, Len(sorted))

RECURSIVE SortNames(_)
SortNames(names) ==
    IF names = <<>> THEN <<>>
    ELSE InsertName(SortNames(SubSeq(names, 1, Len(names) - 1)), names[Len(names)])

SortedSet(names) == SortNames(Dedupe(names))

(***************************************************************************)
(* searchType and getTypeHierarchy                                         *)
(***************************************************************************)
\* Array.prototype.find: the first of the elements that pass, in a sequence
\* of at most one element (empty for undefined)
FindFirst(passing) == IF passing = <<>> THEN <<>> ELSE <<Head(passing)>>

\* type.name === name
NamedExactly(all, name) == SelectSeq(all, LAMBDA type : type.name = name)

\* type.name.toLowerCase() === name.toLowerCase()
NamedWithoutCase(all, name) ==
    SelectSeq(all, LAMBDA type : ToLowerCase(type.name) = ToLowerCase(name))

\* with a variant that looks for the name without case only
FindsWithoutCase(all, name) == FindFirst(NamedWithoutCase(all, name))

\* searchType over the declarations of the index: <<>> is null
searchType(all, name) ==
    IF NamedExactly(all, name) # <<>>
    THEN FindFirst(NamedExactly(all, name))
    ELSE FindFirst(NamedWithoutCase(all, name))

\* target.fullSignature || target.signature
FullText(type) ==
    IF type.fullSignature = UNDEFINED \/ type.fullSignature = "" THEN type.signature
    ELSE type.fullSignature

\* /^[A-Z][A-Za-z0-9_]*$/
IsBareCapitalized(line) ==
    /\ line # ""
    /\ IsUpper(At(line, 1))
    /\ \A i \in 1..Len(line) : IsWord(At(line, i))

\* the lines of text, trimmed, that the pattern of embedded names accepts
RECURSIVE EmbeddedIn(_)
EmbeddedIn(ls) ==
    IF ls = <<>> THEN <<>>
    ELSE (IF IsBareCapitalized(Trim(Head(ls))) THEN <<Trim(Head(ls))>> ELSE <<>>)
             \o EmbeddedIn(Tail(ls))

\* the parents pushed for target: the text is in lower case when it is split
ParentsOf(target) ==
    IF target.kind \in {"interface", "struct", "type"}
    THEN EmbeddedIn(SplitLines(ToLowerCase(FullText(target))))
    ELSE <<>>

\* with a variant that leaves out the target alone, not every declaration of
\* its name
IsNotTarget(candidate, target) == candidate # target

IsOtherName(candidate, target) == candidate.name # target.name

\* the children pushed for target, in the order of the index
RECURSIVE ChildrenOf(_, _)
ChildrenOf(all, target) ==
    IF all = <<>> THEN <<>>
    ELSE (IF IsOtherName(Head(all), target)
              /\ Includes(ToLowerCase(FullText(Head(all))), ToLowerCase(target.name))
          THEN <<Head(all).name>>
          ELSE <<>>)
             \o ChildrenOf(Tail(all), target)

\* the hierarchy of a target that was found
HierarchyOf(all, target) ==
    [type |-> target,
     parents |-> SortedSet(ParentsOf(target)),
     children |-> SortedSet(ChildrenOf(all, target))]

\* getTypeHierarchy over the declarations of the index: <<>> is null
getTypeHierarchy(all, name) ==
    IF searchType(all, name) = <<>> THEN <<>>
    ELSE <<HierarchyOf(all, searchType(all, name)[1])>>

(***************************************************************************)
(* summarizeModule                                                         *)
(***************************************************************************)
DefaultHighlightCount == 12
ShortNameLength == 24

\* getTypesFromModule; with a variant that takes the declarations of every
\* module
TypesOfEveryModule(all, moduleName) == all

getTypesFromModule(all, moduleName) ==
    SelectSeq(all, LAMBDA type : ToLowerCase(type.module) = ToLowerCase(moduleName))

\* a variant of the score below that gives the point for a short name to every
\* name
ScoresEveryName(type) ==
    (IF type.docs # UNDEFINED /\ type.docs # "" THEN 2 ELSE 0)
        + (IF type.kind \in {"function", "method"} THEN 4 ELSE 0)
        + (IF type.kind \in {"interface", "struct"} THEN 3 ELSE 0)
        + 1

highlightScore(type) ==
    (IF type.docs # UNDEFINED /\ type.docs # "" THEN 2 ELSE 0)
        + (IF type.kind \in {"function", "method"} THEN 4 ELSE 0)
        + (IF type.kind \in {"interface", "struct"} THEN 3 ELSE 0)
        + (IF Len(type.name) <= ShortNameLength THEN 1 ELSE 0)

\* the comparator of the sort of the highlights
CompareHighlights(left, right) ==
    IF highlightScore(right) # highlightScore(left)
    THEN highlightScore(right) - highlightScore(left)
    ELSE localeCompare(left.name, right.name)

InsertHighlight(sorted, item) ==
    LET after == { i \in 1..Len(sorted) : CompareHighlights(sorted[i], item) <= 0 }
        k == IF after = {} THEN 0 ELSE CHOOSE i \in after : \A j \in after : j <= i
    IN  SubSeq(sorted, 1, k) \o <<item>> \o SubSeq(sorted, k + 1, Len(sorted))

RECURSIVE SortHighlights(_)
SortHighlights(types) ==
    IF types = <<>> THEN <<>>
    ELSE InsertHighlight(SortHighlights(SubSeq(types, 1, Len(types) - 1)), types[Len(types)])

FilesOf(types) == [i \in 1..Len(types) |-> types[i].file]

\* the summary of the declarations of one module
SummaryOf(types, moduleName, highlightCount) ==
    [module |-> moduleName,
     total |-> Len(types),
     byKind |-> [kind \in ExtractedKind |->
                    Cardinality({ i \in 1..Len(types) : types[i].kind = kind })],
     files |-> SortedSet(FilesOf(types)),
     highlights |-> SliceTo(SortHighlights(types), Max(1, highlightCount))]

\* summarizeModule over the declarations of the index
summarizeModule(all, moduleName, highlightCount) ==
    SummaryOf(getTypesFromModule(all, moduleName), moduleName, highlightCount)

(***************************************************************************)
(* analyzeDependencies                                                     *)
(***************************************************************************)
\* the text between the quote at position i of s and the next quote; "" when
\* there is no quote at i, none after it, or nothing between the two
QuotedAt(s, i) ==
    LET close == FindFrom(s, "\"", i + 1)
    IN  IF At(s, i) = "\"" /\ close > i + 1 THEN SubSeq(s, i + 1, close - 1) ELSE ""

\* /^import\s+"([^"]+)"/ : the path, "" when the line does not match
MatchImportSingle(line) ==
    IF StartsWith(line, "import") /\ SkipSpaces(line, 7) > 7
    THEN QuotedAt(line, SkipSpaces(line, 7))
    ELSE ""

\* /^import\s*\(/
MatchImportOpen(line) == StartsWith(line, "import") /\ At(line, SkipSpaces(line, 7)) = "("

\* /^(?:[A-Za-z_]\w*\s+)?"([^"]+)"/ : the path, "" when the item does not match
MatchImportItem(item) ==
    IF IdentEnd(item) > 0 /\ SkipSpaces(item, IdentEnd(item)) > IdentEnd(item)
    THEN QuotedAt(item, SkipSpaces(item, IdentEnd(item)))
    ELSE QuotedAt(item, 1)

\* the inner loop of extractImports from line inner: the paths pushed, and the
\* line of the closing paren (-1 when the lines end without one)
RECURSIVE ImportBlock(_, _)
RECURSIVE ImportItemThen(_, _, _)
ImportBlock(ls, inner) ==
    IF inner >= Len(ls) THEN [paths |-> <<>>, close |-> -1]
    ELSE IF Trim(LineAt(ls, inner)) = ")" THEN [paths |-> <<>>, close |-> inner]
    ELSE ImportItemThen(ls, inner, ImportBlock(ls, inner + 1))

ImportItemThen(ls, inner, rest) ==
    [paths |-> (IF MatchImportItem(Trim(LineAt(ls, inner))) # ""
                THEN <<MatchImportItem(Trim(LineAt(ls, inner)))>> ELSE <<>>) \o rest.paths,
     close |-> rest.close]

\* the outer loop of extractImports from line i
RECURSIVE ImportsFrom(_, _)
RECURSIVE ImportsAfterBlock(_, _, _)
ImportsFrom(ls, i) ==
    IF i >= Len(ls) THEN <<>>
    ELSE IF MatchImportSingle(Trim(LineAt(ls, i))) # ""
    THEN <<MatchImportSingle(Trim(LineAt(ls, i)))>> \o ImportsFrom(ls, i + 1)
    ELSE IF MatchImportOpen(Trim(LineAt(ls, i)))
    THEN ImportsAfterBlock(ls, i, ImportBlock(ls, i + 1))
    ELSE ImportsFrom(ls, i + 1)

ImportsAfterBlock(ls, i, block) ==
    block.paths \o ImportsFrom(ls, IF block.close >= 0 THEN block.close + 1 ELSE i + 1)

extractImports(content) == ImportsFrom(SplitLines(content), 0)

\* the names of the modules of files, each once, in the order of the files
ModulesOf(files) == Dedupe([i \in 1..Len(files) |-> getModuleName(files[i].path)])

\* the imports of the files of a module, in the order they are added
RECURSIVE ImportsOfModule(_, _)
ImportsOfModule(files, module) ==
    IF files = <<>> THEN <<>>
    ELSE (IF getModuleName(Head(files).path) = module
          THEN extractImports(Head(files).content) ELSE <<>>)
             \o ImportsOfModule(Tail(files), module)

\* the names added to the exports of a module; with a variant that adds them
\* in lower case
ExportsInLowerCase(all, module) ==
    LET own == SelectSeq(all, LAMBDA type : type.module = module)
    IN  [i \in 1..Len(own) |-> ToLowerCase(own[i].name)]

ExportsOfModule(all, module) ==
    LET own == SelectSeq(all, LAMBDA type : type.module = module)
    IN  [i \in 1..Len(own) |-> own[i].name]

\* the report for the modules of files, sorted by module
DependenciesOf(files, all) ==
    LET modules == SortNames(ModulesOf(files))
    IN  [i \in 1..Len(modules) |->
            [module |-> modules[i],
             imports |-> SortedSet(ImportsOfModule(files, modules[i])),
             exports |-> SortedSet(ExportsOfModule(all, modules[i])),
             reExportsFrom |-> <<>>]]

(***************************************************************************)
(* SpecScan: extractFromContent run line by line on one file.  The file is *)
(* any sequence of at most MaxLines lines of ScanVocabulary.               *)
(***************************************************************************)
MaxLines == 4

ScanVocabulary ==
    { "",
      "// see }",
      "type Ab interface {",
      "\tGet() error",
      "\tio.Reader",
      "}",
      "type Bar = string",
      "type Cd interface { Run() }" }

ScanPath == "ab/x.go"

NoCall == [op |-> "none", query |-> "", limit |-> 0, filters |-> NoFilters, outcome |-> "none", scanned |-> FALSE, tree |-> NoTree, result |-> <<>>]

ScanInit ==
    /\ lines \in UNION { [1..n -> ScanVocabulary] : n \in 1..MaxLines }
    /\ index = 0
    /\ results = <<>>
    /\ visited = {}
    /\ fs = NoTree
    /\ cachedTypes = NullCache
    /\ scans = 0
    /\ reads = 0
    /\ lastCall = NoCall
    /\ NoUpdater

\* one iteration of the for loop of extractFromContent
ScanLine ==
    /\ index < Len(lines)
    /\ LET step == ScanStep(lines, index, ScanPath)
       IN  /\ results' = results \o step.emit
           /\ index' = step.next
    /\ visited' = visited \cup {index}
    /\ UNCHANGED <<lines, indexVars, updaterVars>>

ScanNext == ScanLine

SpecScan == ScanInit /\ [][ScanNext]_vars

(***************************************************************************)
(* SpecKinds: the same scan over files that hold every kind of             *)
(* declaration, exported and not.                                          *)
(***************************************************************************)
MaxKindLines == 3

KindVocabulary ==
    { "type Ab interface{}",
      "type Foo struct { Name string }",
      "type Bar = string",
      "type bar int",
      "func (c *C) Send(x int) error {",
      "func Run() {",
      "func run() {",
      "var (",
      "\tEf = 1",
      "\tgh int",
      ")",
      "const Max = 10",
      "var Hi []int" }

KindsInit ==
    /\ lines \in UNION { [1..n -> KindVocabulary] : n \in 1..MaxKindLines }
    /\ index = 0
    /\ results = <<>>
    /\ visited = {}
    /\ fs = NoTree
    /\ cachedTypes = NullCache
    /\ scans = 0
    /\ reads = 0
    /\ lastCall = NoCall
    /\ NoUpdater

SpecKinds == KindsInit /\ [][ScanNext]_vars

(***************************************************************************)
(* Claims about the scanner.                                               *)
(***************************************************************************)
\* '{' minus '}' over lines s .. e
RECURSIVE BraceBalance(_, _, _)
BraceBalance(ls, s, e) ==
    IF e < s THEN 0
    ELSE BraceBalance(ls, s, e - 1)
             + CountChar(LineAt(ls, e), "{") - CountChar(LineAt(ls, e), "}")

\* line e is the first line at whose end the braces opened from line s on are closed
ClosesAt(ls, s, e) ==
    /\ BraceBalance(ls, s, e) = 0
    /\ \A k \in s..(e - 1) : BraceBalance(ls, s, k) # 0

\* the braces opened from line s on are still open at the end of the file
NeverCloses(ls, s) == \A e \in s..(Len(ls) - 1) : BraceBalance(ls, s, e) # 0

\* a line of the shape name(parameters) returnTail
IsMethodLine(raw) ==
    LET line == Trim(raw)
        k == SkipWord(line, 1)
        open == SkipSpaces(line, k)
    IN  /\ At(line, 1) \in (UpperSet \cup LowerSet \cup {"_"})
        /\ At(line, open) = "("
        /\ \E c \in (open + 1)..Len(line) : At(line, c) = ")"

MethodLinesBetween(ls, s, e) ==
    Cardinality({ i \in (s + 1)..(e - 1) : IsMethodLine(LineAt(ls, i)) })

InterfacesFound == { d \in { results[i] : i \in 1..Len(results) } : d.kind = "interface" }

\* what C2 says of an interface whose block runs from line s to a closing line e
BlockScannedAsOne(d, s, e) ==
    /\ Len(d.methods) = MethodLinesBetween(lines, s, e)
    /\ index > e
    /\ visited \cap ((s + 1)..e) = {}

IsExportedIdentifier(name) ==
    /\ name # ""
    /\ IsUpper(At(name, 1))
    /\ \A i \in 1..Len(name) : IsWord(At(name, i))

\* C3: every declaration a scan produces has one of the seven kinds, a non-empty
\* name that is an exported identifier (upper-case first letter) and a non-empty
\* signature.
C3_DeclarationShape ==
    \A i \in 1..Len(results) :
        /\ results[i].kind \in ExtractedKind
        /\ IsExportedIdentifier(results[i].name)
        /\ results[i].signature # ""

\* a finished scan has produced three declarations of three different kinds
C3_Witness ==
    /\ index = Len(lines)
    /\ Len(results) = 3
    /\ Cardinality({ results[i].kind : i \in 1..Len(results) }) = 3


(***************************************************************************)
(* The trees the index is run on.  The root holds a.go and the directory   *)
(* ab with b.go, next to entries listGoFiles passes over; a file is        *)
(* absent, unreadable, or holds one of the texts below.  The order of the  *)
(* root's entries is the file system's.                                    *)
(***************************************************************************)
DocumentedType == "// ab docs\ntype Abc int"
FunctionAndConst == "func Ab() {\n}\nconst Go = 1"
StructWithField == "type Gob struct {\n\tAb int\n}"
NoDeclarations == ""
VarGroup == "var (\n\tB = 1\n\tAB = 2\n)"
PassedOver == "type Zz int"

Absent == [present |-> FALSE, readable |-> FALSE, content |-> ""]
Unreadable == [present |-> TRUE, readable |-> FALSE, content |-> ""]
Holding(content) == [present |-> TRUE, readable |-> TRUE, content |-> content]

Reverse(seq) == [i \in 1..Len(seq) |-> seq[Len(seq) + 1 - i]]

FileIn(name, choice) ==
    IF choice.present THEN <<FileEntry(name, choice.content, choice.readable)>> ELSE <<>>

Tree(rootFile, nestedFile, reversed) ==
    LET entries == <<DirEntry(".git", <<FileEntry("h.go", PassedOver, TRUE)>>)>>
                       \o FileIn("a.go", rootFile)
                       \o <<FileEntry("a_test.go", PassedOver, TRUE),
                            DirEntry("ab", FileIn("b.go", nestedFile)),
                            DirEntry("vendor", <<FileEntry("v.go", PassedOver, TRUE)>>)>>
    IN  RootDir(IF reversed THEN Reverse(entries) ELSE entries)

\* the same tree, its root enumerated in the opposite order
ReversedRoot(tree) == [tree EXCEPT !.entries = Reverse(tree.entries)]

IndexChoices == {Absent, Unreadable, Holding(NoDeclarations), Holding(DocumentedType)}

IndexTrees ==
    {NoTree} \cup {Tree(a, b, FALSE) : a \in IndexChoices, b \in IndexChoices}

RankChoices ==
    {Absent, Unreadable, Holding(DocumentedType), Holding(FunctionAndConst),
     Holding(StructWithField), Holding(VarGroup)}

RankTrees == {Tree(a, b, r) : a \in RankChoices, b \in RankChoices, r \in BOOLEAN}

(***************************************************************************)
(* Spec: one AstParser over a tree that changes under it.                  *)
(***************************************************************************)
MaxScans == 2

NoScan == lines = <<>> /\ index = 0 /\ results = <<>> /\ visited = {}

Init ==
    /\ fs \in IndexTrees
    /\ cachedTypes = NullCache
    /\ scans = 0
    /\ reads = 0
    /\ lastCall = NoCall
    /\ NoUpdater
    /\ NoScan

\* a call of extractAllTypes
ExtractAllTypes ==
    /\ IsCached(cachedTypes) \/ scans < MaxScans
    /\ \E call \in {ExtractAllTypesCall(cachedTypes, fs)} :
           /\ cachedTypes' = call.cache
           /\ scans' = scans + call.scans
           /\ reads' = reads + call.reads
           /\ lastCall' = [NoCall EXCEPT !.op = "extractAllTypes",
                                         !.outcome = IF call.threw THEN "threw" ELSE "returned",
                                         !.scanned = call.scans = 1,
                                         !.tree = fs,
                                         !.result = call.value]
    /\ UNCHANGED <<fs, scanVars, updaterVars>>

\* the files of the repository are edited, created, removed or made unreadable
ModifyTree ==
    /\ fs' \in IndexTrees \ {fs}
    /\ UNCHANGED <<cachedTypes, scans, reads, lastCall, scanVars, updaterVars>>

Next == ExtractAllTypes \/ ModifyTree

Spec == Init /\ [][Next]_vars

(***************************************************************************)
(* SpecRank: searchByContext on one AstParser.                             *)
(***************************************************************************)
MaxLimit == 2

Queries == {"", " \t", "ab", "go", " Ab  a", "var"}

Limits == (0..MaxLimit) \cup {DefaultLimit}

Filters ==
    {NoFilters,
     [module |-> "AB", kind |-> UNDEFINED],
     [module |-> "", kind |-> UNDEFINED],
     [module |-> UNDEFINED, kind |-> "function"],
     [module |-> "root", kind |-> "type"]}

RankInit ==
    /\ fs \in RankTrees
    /\ cachedTypes = NullCache
    /\ scans = 0
    /\ reads = 0
    /\ lastCall = NoCall
    /\ NoUpdater
    /\ NoScan

\* a call of searchByContext: the declarations come from extractAllTypes, whose
\* failure is the call's failure.  A tool handler makes one search on the
\* AstParser it constructs.
SearchByContext ==
    /\ lastCall.op # "searchByContext"
    /\ \E call \in {ExtractAllTypesCall(cachedTypes, fs)} :
           /\ cachedTypes' = call.cache
           /\ scans' = scans + call.scans
           /\ reads' = reads + call.reads
           /\ \E query \in Queries, limit \in Limits, filters \in Filters :
                  lastCall' = [op |-> "searchByContext",
                               query |-> query,
                               limit |-> limit,
                               filters |-> filters,
                               outcome |-> IF call.threw THEN "threw" ELSE "returned",
                               scanned |-> call.scans = 1,
                               tree |-> fs,
                               result |-> IF call.threw THEN <<>>
                                          ELSE RankTypes(call.value, query, limit, filters)]
    /\ UNCHANGED <<fs, scanVars, updaterVars>>

RankNext == ExtractAllTypes \/ SearchByContext

SpecRank == RankInit /\ [][RankNext]_vars


(***************************************************************************)
(* SpecQuery: the other queries of the index, each on the AstParser a tool *)
(* handler constructs for it.                                              *)
(***************************************************************************)
EmbeddingStruct == "type Gob struct {\n\tAbc\n\tAb int\n}"
LongNamed == "type Abcdefghijklmnopqrstuvwxy interface {\n\tAb\n}\ntype Gob struct {\n}"
Importing == "import \"os\"\nimport (\n\tf \"fmt\"\n\t\"os\"\n)\nvar B = 1\nvar AB = 2\nvar B = 3"

QueryChoices ==
    {Absent, Unreadable, Holding(DocumentedType), Holding(FunctionAndConst),
     Holding(EmbeddingStruct), Holding(LongNamed), Holding(Importing)}

QueryTrees == {Tree(a, b, FALSE) : a \in QueryChoices, b \in QueryChoices}

MaxHighlights == 2

Names == {"Abc", "abc", "AB", "ab", "B", "Gob", "Zz"}

ModuleNames == {"root", "AB", "zz"}

HighlightCounts == (-1..MaxHighlights) \cup {DefaultHighlightCount}

QueryInit ==
    /\ fs \in QueryTrees
    /\ cachedTypes = NullCache
    /\ scans = 0
    /\ reads = 0
    /\ lastCall = NoCall
    /\ NoUpdater
    /\ NoScan

\* no call has been made on the instance yet
NoQueryYet == lastCall.op = "none"

\* what a call leaves of the index and of the counters
IndexAfter(call) ==
    /\ cachedTypes' = call.cache
    /\ scans' = scans + call.scans
    /\ reads' = reads + call.reads

\* the record of a call; a call fails when extractAllTypes does
CallRecord(op, argument, count, call, result) ==
    [NoCall EXCEPT !.op = op,
                   !.query = argument,
                   !.limit = count,
                   !.outcome = IF call.threw THEN "threw" ELSE "returned",
                   !.scanned = call.scans = 1,
                   !.tree = fs,
                   !.result = IF call.threw THEN <<>> ELSE result]

SearchType ==
    /\ NoQueryYet
    /\ \E call \in {ExtractAllTypesCall(cachedTypes, fs)} :
           /\ IndexAfter(call)
           /\ \E name \in Names :
                  lastCall' = CallRecord("searchType", name, 0, call,
                                         searchType(call.value, name))
    /\ UNCHANGED <<fs, scanVars, updaterVars>>

GetTypeHierarchy ==
    /\ NoQueryYet
    /\ \E call \in {ExtractAllTypesCall(cachedTypes, fs)} :
           /\ IndexAfter(call)
           /\ \E name \in Names :
                  lastCall' = CallRecord("getTypeHierarchy", name, 0, call,
                                         getTypeHierarchy(call.value, name))
    /\ UNCHANGED <<fs, scanVars, updaterVars>>

SummarizeModule ==
    /\ NoQueryYet
    /\ \E call \in {ExtractAllTypesCall(cachedTypes, fs)} :
           /\ IndexAfter(call)
           /\ \E moduleName \in ModuleNames, highlightCount \in HighlightCounts :
                  lastCall' = CallRecord("summarizeModule", moduleName, highlightCount, call,
                                         <<summarizeModule(call.value, moduleName, highlightCount)>>)
    /\ UNCHANGED <<fs, scanVars, updaterVars>>

\* the reads of the first loop of analyzeDependencies: every file up to the
\* first that cannot be read
RECURSIVE ReadsOf(_)
ReadsOf(files) ==
    IF files = <<>> THEN 0
    ELSE IF ~Head(files).readable THEN 1
    ELSE 1 + ReadsOf(Tail(files))

AllReadable(files) == \A i \in 1..Len(files) : files[i].readable

\* a call of analyzeDependencies: it lists and reads the files itself, then
\* takes the declarations from extractAllTypes
AnalyzeDependencies ==
    /\ NoQueryYet
    /\ \E files \in {listGoFiles(fs)} :
           \E call \in {IF AllReadable(files) THEN ExtractAllTypesCall(cachedTypes, fs)
                        ELSE [threw |-> TRUE, value |-> <<>>, cache |-> cachedTypes,
                              scans |-> 0, reads |-> 0]} :
               /\ cachedTypes' = call.cache
               /\ scans' = scans + call.scans
               /\ reads' = reads + ReadsOf(files) + call.reads
               /\ lastCall' = [NoCall EXCEPT !.op = "analyzeDependencies",
                                             !.outcome = IF call.threw THEN "threw" ELSE "returned",
                                             !.scanned = call.scans = 1,
                                             !.tree = fs,
                                             !.result = IF call.threw THEN <<>>
                                                        ELSE DependenciesOf(files, call.value)]
    /\ UNCHANGED <<fs, scanVars, updaterVars>>

QueryNext ==
    \/ SearchType
    \/ GetTypeHierarchy
    \/ SummarizeModule
    \/ AnalyzeDependencies

SpecQuery == QueryInit /\ [][QueryNext]_vars

(***************************************************************************)
(* The index: memoization and read failures (Spec)                         *)
(***************************************************************************)
\* a step that is a call: it starts a scan or leaves another record of the call
CallStep == scans' # scans \/ lastCall' # lastCall

\* C4: on one AstParser, once a call of extractAllTypes has succeeded (the cache
\* is set, were it to the empty sequence), no later step scans or reads the
\* file system or changes the cache, and every later call returns the cached
\* sequence, whatever the tree has become; the call that sets the cache has
\* read every collected file, and returns what it stores.
C4_ScanOnce ==
    [][ /\ ~cachedTypes.null =>
              /\ cachedTypes' = cachedTypes
              /\ scans' = scans
              /\ reads' = reads
              /\ lastCall' # lastCall =>
                     /\ lastCall'.outcome = "returned"
                     /\ ~lastCall'.scanned
                     /\ lastCall'.result = cachedTypes.types
        /\ (cachedTypes.null /\ ~cachedTypes'.null) =>
              /\ scans' = scans + 1
              /\ reads' = reads + Len(listGoFiles(fs))
              /\ lastCall'.outcome = "returned"
              /\ lastCall'.result = cachedTypes'.types ]_vars

\* the first scan found no declaration; the tree now holds some, and a call made
\* on it has returned the empty sequence without a scan
C4_Witness ==
    /\ lastCall.op = "extractAllTypes"
    /\ lastCall.outcome = "returned"
    /\ ~lastCall.scanned
    /\ lastCall.tree = fs
    /\ lastCall.result = <<>>
    /\ cachedTypes = CacheOf(<<>>)
    /\ scans = 1
    /\ ReadLoop(listGoFiles(fs), <<>>, 0).extracted # <<>>

\* the position of the first unreadable file of files, Len(files) + 1 when all
\* can be read
FirstUnreadable(files) ==
    CHOOSE k \in 1..(Len(files) + 1) :
        /\ k <= Len(files) => ~files[k].readable
        /\ \A j \in 1..(k - 1) : files[j].readable

\* C5: a call of extractAllTypes on an AstParser without a cache starts a scan
\* from the first collected file (so does the call after a failed one); when a
\* collected file cannot be read the call throws, returns nothing, and leaves
\* the cache null, the declarations of the files read before are not kept.
C5_ReadFailure ==
    [][ (cachedTypes.null /\ CallStep) =>
            \A files \in {listGoFiles(fs)} :
                /\ scans' = scans + 1
                /\ reads' = reads + Min(FirstUnreadable(files), Len(files))
                /\ (\E k \in 1..Len(files) : ~files[k].readable) =>
                       /\ lastCall'.outcome = "threw"
                       /\ lastCall'.result = <<>>
                       /\ cachedTypes' = NullCache ]_vars

\* two calls have failed on a file read after one that holds declarations
C5_Witness ==
    /\ lastCall.op = "extractAllTypes"
    /\ lastCall.outcome = "threw"
    /\ lastCall.tree = fs
    /\ scans = 2
    /\ reads = 4
    /\ cachedTypes = NullCache
    /\ ReadLoop(listGoFiles(fs), <<>>, 0).extracted # <<>>


(***************************************************************************)
(* Ranked search (SpecRank)                                                *)
(***************************************************************************)
\* the last call was a search, and it returned
Searched == lastCall.op = "searchByContext" /\ lastCall.outcome = "returned"

LabelsOf(ranked) == { ranked.matchedIn[i] : i \in 1..Len(ranked.matchedIn) }

NoDuplicates(seq) == \A i, j \in 1..Len(seq) : i # j => seq[i] # seq[j]

Occurrences(seq, x) == Cardinality({ i \in 1..Len(seq) : seq[i] = x })

\* the terms of the last call
TermsAsked == QueryTerms(lastCall.query)

\* a declaration passes the filters that are given (set, and not the empty string)
PassesFilters(type, filters) ==
    /\ Truthy(filters.module) => ToLowerCase(type.module) = ToLowerCase(filters.module)
    /\ Truthy(filters.kind) => type.kind = filters.kind

\* C1: the sequence searchByContext returns for a query, a limit and filters is
\* the one it returns when the index holds the same declarations in another
\* order: here the order the scan gives when the root directory is enumerated
\* backwards.
C1_AsStated ==
    Searched =>
        \A other \in {ExtractAllTypesCall(NullCache, ReversedRoot(lastCall.tree))} :
            RankTypes(other.value, lastCall.query, lastCall.limit, lastCall.filters)
                = lastCall.result

\* C6: a search returns Min(Max(1, limit), number of matching candidates)
\* elements, each a matching candidate (taken no more often than it matches), in
\* descending order of score and, at equal score, in ascending order of name
\* (the order of localeCompare: letters compare without case first); no
\* candidate left out precedes the last element returned.
C6_SortedAndTruncated ==
    Searched =>
        \A r \in {lastCall.result},
           candidates \in {RankAll(ApplyFilters(cachedTypes.types, lastCall.filters), TermsAsked)} :
            /\ Len(r) = Min(Max(1, lastCall.limit), Len(candidates))
            /\ Len(r) <= Max(1, lastCall.limit)
            /\ \A i \in 1..(Len(r) - 1) :
                   /\ r[i].score >= r[i + 1].score
                   /\ r[i].score = r[i + 1].score =>
                          localeCompare(r[i].type.name, r[i + 1].type.name) <= 0
            /\ \A i \in 1..Len(r) : Occurrences(r, r[i]) <= Occurrences(candidates, r[i])
            /\ \A k \in 1..Len(candidates) :
                   Occurrences(r, candidates[k]) < Occurrences(candidates, candidates[k]) =>
                       \/ candidates[k].score < r[Len(r)].score
                       \/ /\ candidates[k].score = r[Len(r)].score
                          /\ localeCompare(candidates[k].type.name, r[Len(r)].type.name) >= 0

\* a search cut to two results: the first outscores the second, which shares
\* its score with a candidate of a later name that is left out
C6_Witness ==
    /\ Searched
    /\ lastCall.limit = 2
    /\ Len(lastCall.result) = 2
    /\ lastCall.result[1].score > lastCall.result[2].score
    /\ \E k \in 1..Len(cachedTypes.types) :
           /\ localeCompare(lastCall.result[2].type.name, cachedTypes.types[k].name) < 0
           /\ ScoreTerms(LowerFields(cachedTypes.types[k]), TermsAsked).score
                  = lastCall.result[2].score
           /\ k < Len(cachedTypes.types)


\* C7: the weights are ordered name-exact > name > signature > module = docs >
\* file = kind (> 0); and in a search for one term every candidate the term
\* matches in the name scores more than, and when both are returned comes
\* before, every candidate it matches in the file path alone.
C7_WeightOrder ==
    /\ WeightNameExact > WeightName
    /\ WeightName > WeightSignature
    /\ WeightSignature > WeightModule
    /\ WeightModule = WeightDocs
    /\ WeightDocs > WeightFile
    /\ WeightFile = WeightKind
    /\ WeightKind > 0
    /\ (Searched /\ Len(TermsAsked) = 1) =>
           \A r \in {lastCall.result},
              candidates \in {RankAll(ApplyFilters(cachedTypes.types, lastCall.filters), TermsAsked)} :
               /\ \A i, j \in 1..Len(r) :
                      ("name" \in LabelsOf(r[i]) /\ r[j].matchedIn = <<"file">>) => i < j
               /\ \A i, j \in 1..Len(candidates) :
                      ("name" \in LabelsOf(candidates[i]) /\ candidates[j].matchedIn = <<"file">>)
                          => candidates[i].score > candidates[j].score

\* a search for one term has returned a declaration matched in its name ahead
\* of one matched in its file path alone, which the index holds first
C7_Witness ==
    /\ Searched
    /\ Len(TermsAsked) = 1
    /\ Len(lastCall.result) = 2
    /\ "name" \in LabelsOf(lastCall.result[1])
    /\ lastCall.result[2].matchedIn = <<"file">>
    /\ cachedTypes.types[1] = lastCall.result[2].type

\* a term of the last call equals the name of the declaration, in lower case
ExactTerm(type) == \E k \in 1..Len(TermsAsked) : TermsAsked[k] = ToLowerCase(type.name)

\* a term of the last call is a proper part of the name, in lower case
PartTerm(type) ==
    \E k \in 1..Len(TermsAsked) :
        /\ TermsAsked[k] # ToLowerCase(type.name)
        /\ Includes(ToLowerCase(type.name), TermsAsked[k])

\* C8 as stated: a result one of whose terms equals its name carries the label
\* name next to the label name-exact, and no label twice.
C8_AsStated ==
    Searched =>
        \A i \in 1..Len(lastCall.result) :
            ExactTerm(lastCall.result[i].type) =>
                /\ "name-exact" \in LabelsOf(lastCall.result[i])
                /\ "name" \in LabelsOf(lastCall.result[i])
                /\ NoDuplicates(lastCall.result[i].matchedIn)

\* C8: a result one of whose terms equals its name carries the label name-exact;
\* it carries the label name exactly when another term is a proper part of the
\* name; no label occurs twice; and when the query is that one term, name-exact
\* is its only label and the exact-match weight its score.
C8_ExactMatchLabels ==
    Searched =>
        \A i \in 1..Len(lastCall.result) :
            /\ NoDuplicates(lastCall.result[i].matchedIn)
            /\ ExactTerm(lastCall.result[i].type) =>
                   /\ "name-exact" \in LabelsOf(lastCall.result[i])
                   /\ "name" \in LabelsOf(lastCall.result[i]) <=> PartTerm(lastCall.result[i].type)
                   /\ Len(TermsAsked) = 1 =>
                          /\ lastCall.result[i].matchedIn = <<"name-exact">>
                          /\ lastCall.result[i].score = WeightNameExact

\* a search has returned a declaration whose name is the term asked; it has no
\* label name, though the term is in its signature too
C8_Witness ==
    /\ Searched
    /\ Len(TermsAsked) = 1
    /\ Len(lastCall.result) >= 1
    /\ ExactTerm(lastCall.result[1].type)
    /\ "name" \notin LabelsOf(lastCall.result[1])
    /\ Includes(ToLowerCase(lastCall.result[1].type.signature), TermsAsked[1])

\* the weight of each field a term can be part of
FieldWeights(type) ==
    << <<type.name, WeightName>>, <<type.signature, WeightSignature>>,
       <<IF type.docs = UNDEFINED THEN "" ELSE type.docs, WeightDocs>>,
       <<type.file, WeightFile>>, <<type.module, WeightModule>>, <<type.kind, WeightKind>> >>

RECURSIVE SumOfWeights(_, _, _)
SumOfWeights(pairs, term, k) ==
    IF k > Len(pairs) THEN 0
    ELSE (IF Includes(ToLowerCase(pairs[k][1]), term) THEN pairs[k][2] ELSE 0)
             + SumOfWeights(pairs, term, k + 1)

\* what one term contributes to the score of a declaration
Contribution(type, term) ==
    IF ToLowerCase(type.name) = term THEN WeightNameExact
    ELSE SumOfWeights(FieldWeights(type), term, 1)

RECURSIVE ExpectedScore(_, _, _)
ExpectedScore(type, terms, k) ==
    IF k > Len(terms) THEN 0
    ELSE Contribution(type, terms[k]) + ExpectedScore(type, terms, k + 1)

\* C9: the score of every result is the sum, over the terms of the query, of the
\* exact-match weight for a term equal to the name and, for any other term, of
\* the weights of all the fields the term is part of.
C9_ScoreIsSum ==
    Searched =>
        \A i \in 1..Len(lastCall.result) :
            lastCall.result[i].score = ExpectedScore(lastCall.result[i].type, TermsAsked, 1)

\* a search for two terms: one is the name of the first result, the other is
\* part of its name, its signature, its file path and its module
C9_Witness ==
    /\ Searched
    /\ Len(TermsAsked) = 2
    /\ Len(lastCall.result) >= 1
    /\ ExactTerm(lastCall.result[1].type)
    /\ lastCall.result[1].score
           = WeightNameExact + WeightName + WeightSignature + WeightFile + WeightModule

\* C10: with at least one term no result has score zero; with no term every
\* result has score zero and the results are as many as the declarations that
\* pass the filters, up to Max(1, limit), each returned no more often than the
\* index holds it; every result passes the module filter (equality without
\* case) and the kind filter that are given (set, and not the empty string).
C10_Matches ==
    Searched =>
        \A r \in {lastCall.result},
           passing \in {SelectSeq(cachedTypes.types, LAMBDA type : PassesFilters(type, lastCall.filters))} :
            /\ \A i \in 1..Len(r) : PassesFilters(r[i].type, lastCall.filters)
            /\ TermsAsked # <<>> => \A i \in 1..Len(r) : r[i].score > 0
            /\ TermsAsked = <<>> =>
                   /\ \A i \in 1..Len(r) : r[i].score = 0
                   /\ Len(r) = Min(Max(1, lastCall.limit), Len(passing))
                   /\ \A i \in 1..Len(r) :
                          Cardinality({ j \in 1..Len(r) : r[j].type = r[i].type })
                              <= Occurrences(passing, r[i].type)

\* a search with no term and a module filter written in another case has
\* returned the declarations of that module with score zero, and not the rest
C10_Witness ==
    /\ Searched
    /\ TermsAsked = <<>>
    /\ lastCall.query # ""
    /\ lastCall.filters.module = "AB"
    /\ Len(lastCall.result) = 2
    /\ Len(cachedTypes.types) > 2
    /\ \A i \in 1..2 : lastCall.result[i].score = 0 /\ lastCall.result[i].type.module = "ab"


\* the position at which the index holds a declaration
PositionOf(type) == CHOOSE k \in 1..Len(cachedTypes.types) : cachedTypes.types[k] = type

\* C11 as stated: a search with no term returns the declarations that pass the
\* filters in the order the index holds them.
C11_AsStated ==
    (Searched /\ TermsAsked = <<>>) =>
        \A i, j \in 1..Len(lastCall.result) :
            i < j => PositionOf(lastCall.result[i].type) < PositionOf(lastCall.result[j].type)

\* C11: a search with no term returns its results in ascending order of name
\* (the order of localeCompare), all scores being zero; the order of the index
\* is kept only between declarations of the same name.
C11_ZeroTermsByName ==
    (Searched /\ TermsAsked = <<>>) =>
        \A i, j \in 1..Len(lastCall.result) :
            i < j =>
                /\ localeCompare(lastCall.result[i].type.name, lastCall.result[j].type.name) <= 0
                /\ lastCall.result[i].type.name = lastCall.result[j].type.name =>
                       PositionOf(lastCall.result[i].type) < PositionOf(lastCall.result[j].type)

\* a search with no term has returned, ahead of a declaration the index holds
\* first, one of an earlier name that the index holds after it; and two of the
\* same name in the order of the index
C11_Witness ==
    /\ Searched
    /\ TermsAsked = <<>>
    /\ Len(lastCall.result) >= 3
    /\ PositionOf(lastCall.result[1].type) > PositionOf(lastCall.result[3].type)
    /\ lastCall.result[1].type.name = lastCall.result[2].type.name


(***************************************************************************)
(* SpecFile: extractFromContent run line by line on files that hold a      *)
(* grouped block, a function body and a one-line struct.                   *)
(***************************************************************************)
MaxFileLines == 4

FileVocabulary ==
    {"var (", "\tEf = 1", ")", "func Run() {", "}",
     "type Foo struct { Name string }", "// API type", "type Bar = string"}

FileInit ==
    /\ lines \in UNION { [1..n -> FileVocabulary] : n \in 1..MaxFileLines }
    /\ index = 0
    /\ results = <<>>
    /\ visited = {}
    /\ fs = NoTree
    /\ cachedTypes = NullCache
    /\ scans = 0
    /\ reads = 0
    /\ lastCall = NoCall
    /\ NoUpdater

SpecFile == FileInit /\ [][ScanNext]_vars

\* the scan of the file is over
ScanDone == index >= Len(lines)

\* C12: the lineNumber of every declaration of a scanned file is the number,
\* counted from 1, of the line of the file that holds its text.
C12_AsStated ==
    ScanDone =>
        \A k \in 1..Len(results) :
            /\ results[k].lineNumber \in 1..Len(lines)
            /\ StartsWith(results[k].signature,
                          StripLineComment(lines[results[k].lineNumber]))


\* open minus close over lines s .. e
RECURSIVE Balance(_, _, _, _, _)
Balance(ls, s, e, open, close) ==
    IF e < s THEN 0
    ELSE Balance(ls, s, e - 1, open, close)
             + CountChar(LineAt(ls, e), open) - CountChar(LineAt(ls, e), close)

\* line i lies inside a block that a line before it opens and no line up to it
\* closes
InsideBlock(ls, i) ==
    \E s \in 0..(i - 1) :
        \/ \A k \in s..(i - 1) : Balance(ls, s, k, "{", "}") > 0
        \/ \A k \in s..(i - 1) : Balance(ls, s, k, "(", ")") > 0

\* C13: an iteration of the scan that emits a declaration is at a top-level
\* line, one that lies inside no brace- or paren-delimited block.
C13_AsStated == [][results' # results => ~InsideBlock(lines, index)]_vars


\* the file of the example: a one-line struct, a comment, a type alias
ExampleFile == <<"type Foo struct { Name string }", "// API type", "type Bar = string">>

\* C20: the scan of the example file gives two declarations: the struct Foo,
\* without documentation, with the one field Name of type string; and the type
\* Bar with value string and the documentation "API type".
C20_AsStated ==
    (lines = ExampleFile /\ ScanDone) =>
        /\ Len(results) = 2
        /\ results[1].name = "Foo"
        /\ results[1].kind = "struct"
        /\ results[1].docs = UNDEFINED
        /\ Len(results[1].properties) = 1
        /\ results[1].properties[1].name = "Name"
        /\ results[1].properties[1].type = "string"
        /\ results[2].name = "Bar"
        /\ results[2].kind = "type"
        /\ results[2].value = "string"
        /\ results[2].docs = "API type"

(***************************************************************************)
(* Claims about the queries of SpecQuery                                   *)
(***************************************************************************)
\* the last call was op and it returned
Answered(op) == lastCall.op = op /\ lastCall.outcome = "returned"

\* the hierarchy the last call returned, when it found the name
Hierarchy == lastCall.result[1]

FoundHierarchy == Answered("getTypeHierarchy") /\ lastCall.result # <<>>

\* the lines of the block of a declaration, trimmed, that are one bare
\* capitalized identifier
EmbeddedLines(type) == EmbeddedIn(SplitLines(FullText(type)))

\* C14: the parents getTypeHierarchy reports for an interface, struct or type
\* declaration are the lines of its block that are one bare capitalized
\* identifier, without duplicates and sorted; so a struct with such a line has
\* parents.
C14_AsStated ==
    (FoundHierarchy /\ Hierarchy.type.kind \in {"interface", "struct", "type"}) =>
        Hierarchy.parents = SortedSet(EmbeddedLines(Hierarchy.type))

\* the declarations of the index the last call read
Indexed == cachedTypes.types

\* the text of candidate contains the name of target, without case
MentionsName(candidate, target) ==
    Includes(ToLowerCase(FullText(candidate)), ToLowerCase(target.name))

\* names is in the ascending order of localeCompare, without duplicates
StrictlyAscending(names) ==
    \A i \in 1..Len(names), j \in 1..Len(names) :
        i < j => localeCompare(names[i], names[j]) < 0

NamesIn(names) == { names[i] : i \in 1..Len(names) }

\* C15 as stated: the children are the names of every other declaration of
\* the index whose text contains the name of the target without case, those
\* of the target's own name included.
C15_AsStated ==
    FoundHierarchy =>
        NamesIn(Hierarchy.children) =
            { Indexed[i].name : i \in { k \in 1..Len(Indexed) :
                  /\ Indexed[k] # Hierarchy.type
                  /\ MentionsName(Indexed[k], Hierarchy.type) } }

\* C15: the children getTypeHierarchy reports are the names, other than the
\* target's own name, of the declarations of the index whose block text (the
\* signature when no block was captured) contains the target's name without
\* case; each name once, in the ascending order of localeCompare.
C15_ChildrenOfOtherNames ==
    FoundHierarchy =>
        /\ NamesIn(Hierarchy.children) =
               { Indexed[i].name : i \in { k \in 1..Len(Indexed) :
                     /\ Indexed[k].name # Hierarchy.type.name
                     /\ MentionsName(Indexed[k], Hierarchy.type) } }
        /\ StrictlyAscending(Hierarchy.children)

\* a target with a namesake in the index and with two children that the index
\* holds in the other order
C15_Witness ==
    /\ FoundHierarchy
    /\ Len(Hierarchy.children) >= 2
    /\ \E i \in 1..Len(Indexed) :
           Indexed[i] # Hierarchy.type /\ Indexed[i].name = Hierarchy.type.name
    /\ \E i \in 1..Len(Indexed), j \in 1..Len(Indexed) :
           /\ i < j
           /\ Indexed[i].name = Hierarchy.children[2]
           /\ Indexed[j].name = Hierarchy.children[1]

\* the report the last call of analyzeDependencies returned
Report == lastCall.result

\* C16: in the report of analyzeDependencies the exports of a module are the
\* names of the declarations of the index whose module is that module, each
\* once and sorted; its imports are sorted, each once; every module of a
\* declaration of the index has an entry.
C16_ExportsFromIndex ==
    Answered("analyzeDependencies") =>
        /\ \A i \in 1..Len(Report) :
               /\ NamesIn(Report[i].exports) =
                      { Indexed[k].name : k \in { n \in 1..Len(Indexed) :
                            Indexed[n].module = Report[i].module } }
               /\ StrictlyAscending(Report[i].exports)
               /\ StrictlyAscending(Report[i].imports)
        /\ \A k \in 1..Len(Indexed) :
               \E i \in 1..Len(Report) : Report[i].module = Indexed[k].module

\* a report of two modules, one of them importing "os" twice and "fmt" after
\* it, and declaring B, AB and B again
C16_Witness ==
    /\ Answered("analyzeDependencies")
    /\ Len(Report) = 2
    /\ \E i \in 1..Len(Report) :
           /\ Report[i].imports = <<"fmt", "os">>
           /\ Report[i].exports = <<"AB", "B">>
           /\ Len(SelectSeq(Indexed, LAMBDA type : type.module = Report[i].module)) = 3

\* the summary the last call of summarizeModule returned
Summary == lastCall.result[1]

\* the declarations of the index in the module asked for
OfModuleAsked ==
    SelectSeq(Indexed, LAMBDA type : ToLowerCase(type.module) = ToLowerCase(lastCall.query))

\* the interest score: documented, function or method, interface or struct,
\* name of at most 24 characters
Interest(type) ==
    (IF type.docs \notin {UNDEFINED, ""} THEN 2 ELSE 0)
        + (IF type.kind \in {"function", "method"} THEN 4 ELSE 0)
        + (IF type.kind \in {"interface", "struct"} THEN 3 ELSE 0)
        + (IF Len(type.name) <= 24 THEN 1 ELSE 0)

\* first is not after second: a higher score, or the same score and a name
\* that is not after
NotAfter(first, second) ==
    \/ Interest(first) > Interest(second)
    \/ Interest(first) = Interest(second) /\ localeCompare(first.name, second.name) <= 0

ElementsOf(seq) == { seq[i] : i \in 1..Len(seq) }

\* C17 as stated: the highlights are never more than highlightCount.
C17_AsStated ==
    Answered("summarizeModule") => Len(Summary.highlights) <= lastCall.limit

\* C17: the highlights of summarizeModule are the first max(1, highlightCount)
\* declarations of the module by interest score (documented +2, function or
\* method +4, interface or struct +3, name of at most 24 characters +1), ties
\* by ascending name; all of them when the module has fewer.
C17_TopByInterest ==
    Answered("summarizeModule") =>
        /\ Len(Summary.highlights) = Min(Max(1, lastCall.limit), Len(OfModuleAsked))
        /\ Cardinality(ElementsOf(Summary.highlights)) = Len(Summary.highlights)
        /\ ElementsOf(Summary.highlights) \subseteq ElementsOf(OfModuleAsked)
        /\ \A i \in 1..Len(Summary.highlights), j \in 1..Len(Summary.highlights) :
               i < j => NotAfter(Summary.highlights[i], Summary.highlights[j])
        /\ \A type \in ElementsOf(OfModuleAsked) \ ElementsOf(Summary.highlights) :
               \A i \in 1..Len(Summary.highlights) : NotAfter(Summary.highlights[i], type)

\* one highlight asked of a module that has more declarations, one of them
\* with a name of more than 24 characters, the first of the index not being
\* the one returned
C17_Witness ==
    /\ Answered("summarizeModule")
    /\ lastCall.limit = 1
    /\ Len(Summary.highlights) = 1
    /\ Summary.total > 1
    /\ \E type \in ElementsOf(OfModuleAsked) : Len(type.name) > 24
    /\ Summary.highlights[1] # OfModuleAsked[1]

\* C18: summarizeModule of a module that has no declaration in the index, a
\* module name that no file has included, returns total 0, every count by
\* kind 0, no files and no highlights, whatever the highlightCount; the call
\* returns whenever the index can be built.
C18_EmptyModule ==
    /\ (Answered("summarizeModule") /\ OfModuleAsked = <<>>) =>
           /\ Summary.total = 0
           /\ \A kind \in ExtractedKind : Summary.byKind[kind] = 0
           /\ Summary.files = <<>>
           /\ Summary.highlights = <<>>
    /\ (lastCall.op = "summarizeModule" /\ lastCall.outcome = "threw") =>
           \E i \in 1..Len(listGoFiles(lastCall.tree)) :
               ~listGoFiles(lastCall.tree)[i].readable

\* a summary of a module that no file is in, asked with a highlightCount
\* below one of an index that has declarations
C18_Witness ==
    /\ Answered("summarizeModule")
    /\ lastCall.query = "zz"
    /\ lastCall.limit < 1
    /\ Indexed # <<>>
    /\ Summary.total = 0
    /\ Summary.highlights = <<>>

\* the places of the index whose declaration has the name asked for, exactly
\* and without case
ExactPlaces == { k \in 1..Len(Indexed) : Indexed[k].name = lastCall.query }

CaselessPlaces ==
    { k \in 1..Len(Indexed) : ToLowerCase(Indexed[k].name) = ToLowerCase(lastCall.query) }

First(places) == CHOOSE k \in places : \A other \in places : k <= other

\* C19: searchType returns the first declaration of the index that has exactly
\* the name asked for, when there is one, even after a declaration whose name
\* differs in case only; otherwise the first whose name is the one asked for
\* without case; and null when there is none.
C19_ExactPreferred ==
    Answered("searchType") =>
        IF ExactPlaces # {} THEN lastCall.result = <<Indexed[First(ExactPlaces)]>>
        ELSE IF CaselessPlaces # {} THEN lastCall.result = <<Indexed[First(CaselessPlaces)]>>
        ELSE lastCall.result = <<>>

\* a name found exactly after a declaration of the index whose name differs
\* from it in case only
C19_Witness ==
    /\ Answered("searchType")
    /\ lastCall.result # <<>>
    /\ lastCall.result[1].name = lastCall.query
    /\ First(CaselessPlaces) < First(ExactPlaces)

\* a name found without case only
C19_FallbackWitness ==
    /\ Answered("searchType")
    /\ ExactPlaces = {}
    /\ CaselessPlaces # {}
    /\ lastCall.result # <<>>

(***************************************************************************)
(* SpecGroup: extractFromContent run line by line on files of grouped      *)
(* const and var blocks.                                                   *)
(***************************************************************************)
MaxGroupLines == 4

GroupVocabulary ==
    {"const (", "var (", "\tA = 1", "\tb = 2", ")", "\tMax = f(1) // top", "const ( Ab = 1 )"}

GroupInit ==
    /\ lines \in UNION { [1..n -> GroupVocabulary] : n \in 1..MaxGroupLines }
    /\ index = 0
    /\ results = <<>>
    /\ visited = {}
    /\ fs = NoTree
    /\ cachedTypes = NullCache
    /\ scans = 0
    /\ reads = 0
    /\ lastCall = NoCall
    /\ NoUpdater

SpecGroup == GroupInit /\ [][ScanNext]_vars

\* the kind of the declarations of the group that line opens, "" when it opens
\* none
GroupKind(line) ==
    IF MatchGroupOpen(Trim(line), "const") THEN "const"
    ELSE IF MatchGroupOpen(Trim(line), "var") THEN "variable"
    ELSE ""

\* the parentheses opened from line s on are closed at the end of line e and
\* at the end of no line before it
ParenClosesAt(ls, s, e) ==
    /\ Balance(ls, s, e, "(", ")") = 0
    /\ \A k \in s..(e - 1) : Balance(ls, s, k, "(", ")") # 0

\* the names of the lines i .. e - 1 that start, comments and blanks apart,
\* with a name whose first letter is upper case
RECURSIVE ExportedBetween(_, _, _)
ExportedBetween(ls, i, e) ==
    IF i >= e THEN <<>>
    ELSE (IF IsUpper(At(StripLineComment(LineAt(ls, i)), 1))
          THEN <<SubSeq(StripLineComment(LineAt(ls, i)), 1,
                        SkipWord(StripLineComment(LineAt(ls, i)), 1) - 1)>>
          ELSE <<>>)
             \o ExportedBetween(ls, i + 1, e)

\* the declarations the step adds to the results
Emitted == SubSeq(results', Len(results) + 1, Len(results'))

\* C21: the step at the opening line of a const ( or var ( block that closes
\* on a later line e emits one declaration, of kind const or variable, for
\* each line between the two whose name starts with an upper-case letter, in
\* their order, and nothing else: none for a lower-case name, none for the
\* opening line or the closing line; the scan goes on after line e.
C21_GroupedMembers ==
    [][\A e \in index..(Len(lines) - 1) :
           (GroupKind(LineAt(lines, index)) # "" /\ ParenClosesAt(lines, index, e)) =>
               /\ [i \in 1..Len(Emitted) |-> Emitted[i].name]
                      = ExportedBetween(lines, index + 1, e)
               /\ \A i \in 1..Len(Emitted) :
                      Emitted[i].kind = GroupKind(LineAt(lines, index))
               /\ index' = e + 1]_vars

\* the block of the example has been scanned: const ( A = 1, b = 2 ) gave the
\* one declaration A
C21_Witness ==
    /\ lines = <<"const (", "\tA = 1", "\tb = 2", ")">>
    /\ index = 4
    /\ Len(results) = 1
    /\ results[1].name = "A"
    /\ results[1].kind = "const"

(***************************************************************************)
(* The scan on malformed input                                             *)
(***************************************************************************)
\* every pattern of the scan starts with one of these words
DeclarationWords == {"type", "func", "const", "var"}

StartsWithNone(line) == \A word \in DeclarationWords : ~StartsWith(Trim(line), word)

\* the step emitted an interface or a struct whose braces the file never closes
TruncatedBlockEmitted ==
    /\ Len(Emitted) = 1
    /\ Emitted[1].kind \in {"interface", "struct"}
    /\ NeverCloses(lines, index)

\* what every step of the scan does
StepsForward ==
    /\ index' > index
    /\ index' <= Len(lines)
    /\ (StartsWithNone(LineAt(lines, index)) => results' = results)
    /\ (TruncatedBlockEmitted =>
            /\ Emitted[1].fullSignature = Join(SubSeq(lines, index + 1, Len(lines)), "\n")
            /\ index' = Len(lines))

\* C22: every step of the scan moves the index forward and not past the end
\* of the file, so the scan of a file of n lines ends within n steps; a line
\* that starts with none of the words of a declaration adds nothing; the text
\* of a block that the file never closes runs through the last line of the
\* file, where the scan ends.
C22_ScanTerminates == [][StepsForward]_vars

\* a scan that reached the end of a file of a truncated interface block, its
\* three lines captured, after a line that matches no pattern
C22_Witness ==
    /\ ScanDone
    /\ lines = <<"}", "type Ab interface {", "\tGet() error", "\tio.Reader">>
    /\ Len(results) = 1
    /\ results[1].fullSignature = "type Ab interface {\n\tGet() error\n\tio.Reader"

(***************************************************************************)
(* SpecFrame: one AstParser answering any sequence of queries while the    *)
(* files change.  A query works on the array extractAllTypes returns,      *)
(* which is the cached array itself, not a copy of it.                     *)
(***************************************************************************)
MaxReads == 4

FrameChoices == {Unreadable, Holding(VarGroup), Holding(FunctionAndConst)}

FrameTrees == {Tree(a, b, FALSE) : a \in FrameChoices, b \in FrameChoices}

QueryOps ==
    {"searchType", "searchByContext", "fuzzySearch", "summarizeModule",
     "getTypesFromModule", "getTypesByKind", "getConstants", "getFunctions",
     "getInterfaces", "getTypeHierarchy", "analyzeDependencies", "getStatistics"}

\* a variant of the table below in which topNames sorts, and here reverses,
\* the array it is given
ReversesTheIndex(op) ==
    IF op = "getStatistics" THEN <<"for-of", "for-of", "filter", "reverse">> ELSE <<"for-of">>

\* the Array methods a query calls on the array extractAllTypes returned
MethodsOnIndex(op) ==
    CASE op = "searchType" -> <<"find", "find">>
      [] op \in {"searchByContext", "fuzzySearch"} -> <<"filter", "filter", "for-of">>
      [] op \in {"summarizeModule", "getTypesFromModule", "getTypesByKind",
                 "getConstants", "getFunctions", "getInterfaces"} -> <<"filter">>
      [] op = "getTypeHierarchy" -> <<"find", "find", "for-of">>
      [] op = "analyzeDependencies" -> <<"for-of">>
      [] op = "getStatistics" -> <<"for-of", "for-of", "filter", "filter", "filter">>

\* the receiver of an Array method after the call: reverse (as sort, push and
\* splice) changes it, the methods that return a new array or a value do not
ReceiverAfter(array, method) == IF method = "reverse" THEN Reverse(array) ELSE array

RECURSIVE ArrayAfter(_, _)
ArrayAfter(array, methods) ==
    IF methods = <<>> THEN array
    ELSE ArrayAfter(ReceiverAfter(array, Head(methods)), Tail(methods))

\* the cache after a query that was given the cached array
CacheAfterQuery(cache, op) ==
    IF cache.null THEN cache ELSE CacheOf(ArrayAfter(cache.types, MethodsOnIndex(op)))

\* the files analyzeDependencies reads itself before it asks for the index
OwnReads(op, tree) == IF op = "analyzeDependencies" THEN listGoFiles(tree) ELSE <<>>

FrameInit ==
    /\ fs \in FrameTrees
    /\ cachedTypes = NullCache
    /\ scans = 0
    /\ reads = 0
    /\ lastCall = NoCall
    /\ NoUpdater
    /\ NoScan

\* a call of one of the queries; the value it returns is not kept here
FrameQuery ==
    /\ IsCached(cachedTypes) \/ scans < MaxScans
    /\ reads < MaxReads
    /\ \E op \in QueryOps :
           \E files \in {OwnReads(op, fs)} :
               \E call \in {IF AllReadable(files) THEN ExtractAllTypesCall(cachedTypes, fs)
                            ELSE [threw |-> TRUE, value |-> <<>>, cache |-> cachedTypes,
                                  scans |-> 0, reads |-> 0]} :
                   /\ cachedTypes' = CacheAfterQuery(call.cache, op)
                   /\ scans' = scans + call.scans
                   /\ reads' = reads + ReadsOf(files) + call.reads
                   /\ lastCall' = [NoCall EXCEPT !.op = op,
                                                 !.outcome = IF call.threw THEN "threw" ELSE "returned",
                                                 !.scanned = call.scans = 1,
                                                 !.tree = fs]
    /\ UNCHANGED <<fs, scanVars, updaterVars>>

FrameModify ==
    /\ fs' \in FrameTrees \ {fs}
    /\ UNCHANGED <<cachedTypes, scans, reads, lastCall, scanVars, updaterVars>>

FrameNext == FrameQuery \/ FrameModify

SpecFrame == FrameInit /\ [][FrameNext]_vars

\* C23: once the cache is set, no query changes the declarations it holds or
\* their order, and no change of the files does.
C23_CacheUnchanged == [][~cachedTypes.null => cachedTypes' = cachedTypes]_vars

\* getStatistics was answered from a cache of several declarations that are
\* not in the order of their names, after the files had changed
C23_Witness ==
    /\ lastCall.op = "getStatistics"
    /\ lastCall.outcome = "returned"
    /\ ~lastCall.scanned
    /\ Len(cachedTypes.types) >= 2
    /\ localeCompare(cachedTypes.types[1].name, cachedTypes.types[2].name) > 0
    /\ ExtractAllTypesCall(NullCache, fs).cache # cachedTypes


(***************************************************************************)
(* The auto-updater (src/auto-updater.ts) and the start of the server      *)
(* (src/index.ts).                                                         *)
(*                                                                         *)
(* WHATSMEOW_DIR is one of                                                 *)
(*   "absent"   the path does not exist                                    *)
(*   "empty"    an existing directory with nothing in it                   *)
(*   "partial"  an existing directory with files but no go.mod, as an      *)
(*              interrupted download leaves it                             *)
(*   "plain"    a copy of the sources with go.mod and no .git              *)
(*   "repo"     a clone: go.mod and .git                                   *)
(* Commits are numbered 1, 2, ... in the order GitHub receives them; 0 is   *)
(* null.  git and the requests to GitHub succeed exactly when GitHub can   *)
(* be reached; the cache file can always be written.                       *)
(***************************************************************************)

\* the number of commits GitHub receives
MaxSha == 2

DirectoryStates == {"absent", "empty", "partial", "plain", "repo"}

\* fs.existsSync(path.join(WHATSMEOW_DIR, 'go.mod'))
hasWhatsmeowRepo(dir) == dir \in {"plain", "repo"}

\* fs.existsSync(path.join(WHATSMEOW_DIR, '.git'))
isGitRepository(dir) == dir = "repo"

\* git clone accepts a path that does not exist or an empty directory
GitCloneCanSucceed(dir, net) == net /\ dir \in {"absent", "empty"}

\* the clone is attempted only when WHATSMEOW_DIR does not exist; a failed
\* git clone removes what it created
cloneRepository(dir, net) ==
    IF dir = "absent"
    THEN IF GitCloneCanSucceed(dir, net)
         THEN [cloned |-> TRUE, dir |-> "repo"]
         ELSE [cloned |-> FALSE, dir |-> "absent"]
    ELSE [cloned |-> FALSE, dir |-> dir]

\* git rev-parse HEAD in WHATSMEOW_DIR, null when it fails
getLocalCommitSha(dir, head) == IF isGitRepository(dir) THEN head ELSE 0

\* git pull origin main in WHATSMEOW_DIR: HEAD becomes the head of GitHub
pullRepository(dir, head, remote, net) ==
    IF net /\ isGitRepository(dir)
    THEN [success |-> TRUE, head |-> remote]
    ELSE [success |-> FALSE, head |-> head]

\* ensureRepository: the directory, HEAD and the saved SHA it leaves
ensureRepository(dir, head, saved, remote, net) ==
    IF hasWhatsmeowRepo(dir)
    THEN [success |-> TRUE, dir |-> dir, head |-> head, saved |-> saved]
    ELSE LET clone == cloneRepository(dir, net)
             sha == getLocalCommitSha(clone.dir, remote)
         IN  IF clone.cloned /\ hasWhatsmeowRepo(clone.dir)
             THEN [success |-> TRUE, dir |-> clone.dir, head |-> remote,
                   saved |-> IF sha # 0 THEN sha ELSE saved]
             ELSE [success |-> FALSE, dir |-> clone.dir, head |-> head, saved |-> saved]

\* a mutation of NeedsPull: the pull is made whatever HEAD is
AlwaysPulls(latest, local) == TRUE

\* latestCommit.sha !== localSha
NeedsPull(latest, local) == latest # local

\* a mutation of SavedAfterPull: the fetched SHA is saved before the pull is
\* known to have succeeded
SavedBeforePull(saved, latest, success) == latest

\* saveSha(latestCommit.sha) is reached only when the pull succeeded
SavedAfterPull(saved, latest, success) == IF success THEN latest ELSE saved

\* checkAndUpdate from the answer of fetchLatestCommit on: what it returns
\* and the HEAD and saved SHA it leaves
UpdateOutcome(latest, dir, head, saved, remote, net) ==
    LET local == getLocalCommitSha(dir, head)
        pull == pullRepository(dir, head, remote, net)
        written == SavedAfterPull(saved, latest, pull.success)
    IN  IF latest = 0
        THEN [updated |-> FALSE, error |-> "github", pulled |-> FALSE,
              previousSha |-> 0, currentSha |-> 0, head |-> head, saved |-> saved]
        ELSE IF NeedsPull(latest, local)
        THEN IF ~pull.success
             THEN [updated |-> FALSE, error |-> "pull", pulled |-> TRUE,
                   previousSha |-> 0, currentSha |-> 0, head |-> pull.head, saved |-> written]
             ELSE [updated |-> TRUE, error |-> "none", pulled |-> TRUE,
                   previousSha |-> IF local # 0 THEN local ELSE written,
                   currentSha |-> latest, head |-> pull.head, saved |-> written]
        ELSE [updated |-> FALSE, error |-> "none", pulled |-> FALSE,
              previousSha |-> 0, currentSha |-> latest, head |-> head, saved |-> saved]

\* the record of a call that returned
Returned(c, updated, error, previousSha, currentSha, pulled, second) ==
    [caller |-> c, updated |-> updated, error |-> error, previousSha |-> previousSha,
     currentSha |-> currentSha, pulled |-> pulled, remote |-> remoteSha',
     head |-> localSha', second |-> second]

\* the last call returned updated = true and nothing has moved since: GitHub
\* has the same head and the clone is as that call left it
AfterAnUpdate(prior, remote) ==
    /\ whatsmeowDir = "repo"
    /\ remoteSha = remote
    /\ localSha = prior

UpdaterInit ==
    /\ fs = NoTree
    /\ cachedTypes = NullCache
    /\ scans = 0
    /\ reads = 0
    /\ lastCall = NoCall
    /\ NoScan
    /\ whatsmeowDir \in DirectoryStates
    /\ localSha = IF whatsmeowDir = "repo" THEN 1 ELSE 0
    /\ savedSha \in {0, localSha}
    /\ remoteSha = 1
    /\ online \in BOOLEAN
    /\ server = "stopped"
    /\ calls = [c \in Callers |-> IdleCall]
    /\ updateResult = NoResult

\* index.ts main(): ensureRepository, and process.exit(1) when it fails
Start ==
    /\ server # "running"
    /\ \E e \in {ensureRepository(whatsmeowDir, localSha, savedSha, remoteSha, online)} :
        /\ whatsmeowDir' = e.dir
        /\ localSha' = e.head
        /\ savedSha' = e.saved
        /\ server' = IF e.success THEN "running" ELSE "failed"
    /\ UNCHANGED <<remoteSha, online, calls, updateResult, indexVars, scanVars>>

\* the process ends: the calls in flight end with it
Exit ==
    /\ server = "running"
    /\ server' = "stopped"
    /\ calls' = [c \in Callers |-> IdleCall]
    /\ UNCHANGED <<whatsmeowDir, localSha, savedSha, remoteSha, online, updateResult, indexVars, scanVars>>

\* checkAndUpdate up to the request to GitHub: ensureRepository and
\* isGitRepository
BeginUpdate(c) ==
    /\ server = "running"
    /\ calls[c].pc = "idle"
    /\ \E e \in {ensureRepository(whatsmeowDir, localSha, savedSha, remoteSha, online)} :
        /\ whatsmeowDir' = e.dir
        /\ localSha' = e.head
        /\ savedSha' = e.saved
        /\ UNCHANGED <<remoteSha, online, server>>
        /\ \E second \in {updateResult.updated /\ AfterAnUpdate(updateResult.head, updateResult.remote)} :
            IF ~e.success
            THEN /\ updateResult' = Returned(c, FALSE, "ensure", 0, 0, FALSE, second)
                 /\ UNCHANGED calls
            ELSE IF ~isGitRepository(e.dir)
            THEN /\ updateResult' = Returned(c, FALSE, "notgit", 0, 0, FALSE, second)
                 /\ UNCHANGED calls
            ELSE /\ calls' = [calls EXCEPT ![c] = [pc |-> "fetching", fetched |-> 0, second |-> second,
                                                  priorRemote |-> IF second THEN updateResult.remote ELSE 0,
                                                  priorHead |-> IF second THEN updateResult.head ELSE 0]]
                 /\ UNCHANGED updateResult
    /\ UNCHANGED <<indexVars, scanVars>>

\* fetchLatestCommit answers: the head of GitHub, or null on any failure
FetchLatestCommit(c) ==
    /\ server = "running"
    /\ calls[c].pc = "fetching"
    /\ calls' = [calls EXCEPT ![c].pc = "fetched", ![c].fetched = IF online THEN remoteSha ELSE 0]
    /\ UNCHANGED <<whatsmeowDir, localSha, savedSha, remoteSha, online, server, updateResult, indexVars, scanVars>>

\* checkAndUpdate from the answer of GitHub to its return
FinishUpdate(c) ==
    /\ server = "running"
    /\ calls[c].pc = "fetched"
    /\ \E o \in {UpdateOutcome(calls[c].fetched, whatsmeowDir, localSha, savedSha, remoteSha, online)} :
        /\ localSha' = o.head
        /\ savedSha' = o.saved
        /\ UNCHANGED <<whatsmeowDir, remoteSha, online, server>>
        /\ updateResult' = Returned(c, o.updated, o.error, o.previousSha, o.currentSha, o.pulled,
                                    calls[c].second /\ AfterAnUpdate(calls[c].priorHead, calls[c].priorRemote))
    /\ calls' = [calls EXCEPT ![c] = IdleCall]
    /\ UNCHANGED <<indexVars, scanVars>>

\* a commit is pushed to tulir/whatsmeow
RemoteCommit ==
    /\ remoteSha < MaxSha
    /\ remoteSha' = remoteSha + 1
    /\ UNCHANGED <<whatsmeowDir, localSha, savedSha, online, server, calls, updateResult, indexVars, scanVars>>

\* GitHub becomes reachable or unreachable
Connectivity ==
    /\ online' = ~online
    /\ UNCHANGED <<whatsmeowDir, localSha, savedSha, remoteSha, server, calls, updateResult, indexVars, scanVars>>

\* the directory is removed or emptied from outside the program
DirectoryRemoved ==
    /\ hasWhatsmeowRepo(whatsmeowDir)
    /\ whatsmeowDir' \in {"absent", "empty", "partial"}
    /\ localSha' = 0
    /\ UNCHANGED <<savedSha, remoteSha, online, server, calls, updateResult, indexVars, scanVars>>

UpdaterNext ==
    \/ Start
    \/ Exit
    \/ \E c \in Callers : BeginUpdate(c)
    \/ \E c \in Callers : FetchLatestCommit(c)
    \/ \E c \in Callers : FinishUpdate(c)
    \/ RemoteCommit
    \/ Connectivity
    \/ DirectoryRemoved

SpecUpdater == UpdaterInit /\ [][UpdaterNext]_vars


(***************************************************************************)
(* The download on the first run.                                          *)
(***************************************************************************)

\* C24, as stated: whenever the server starts with no go.mod under the
\* repository directory and a git clone is able to succeed, whatever else the
\* directory is (absent, empty, left by an interrupted download),
\* ensureRepository clones and the server runs on the clone.  The code clones
\* only when the directory does not exist: this is violated.
C24_AsStated ==
    [][(Start /\ ~hasWhatsmeowRepo(whatsmeowDir) /\ GitCloneCanSucceed(whatsmeowDir, online))
        => (whatsmeowDir' = "repo" /\ server' = "running")]_vars


(***************************************************************************)
(* A second update with nothing to fetch.                                  *)
(***************************************************************************)

\* the call of c began after a call had returned updated = true, and ends with
\* GitHub at the same head and the clone as that call left it
SecondCall(c) ==
    /\ FinishUpdate(c)
    /\ calls[c].second
    /\ AfterAnUpdate(calls[c].priorHead, calls[c].priorRemote)

\* the step leaves the local repository and the saved SHA alone
LeavesRepository == UNCHANGED <<whatsmeowDir, localSha, savedSha>>

\* the call returns that there was nothing to do
NothingToUpdate ==
    /\ ~updateResult'.updated
    /\ updateResult'.error = "none"
    /\ ~updateResult'.pulled
    /\ updateResult'.currentSha = localSha

\* the beginning of a second call
SecondBegins(c) ==
    /\ BeginUpdate(c)
    /\ updateResult.updated
    /\ AfterAnUpdate(updateResult.head, updateResult.remote)

\* C25, as stated: the second call pulls nothing, returns updated = false
\* without an error and leaves the repository and the saved SHA alone,
\* whether or not it could ask GitHub for the latest commit
C25_AsStated ==
    [][\A c \in Callers : SecondCall(c) => (NothingToUpdate /\ LeavesRepository)]_vars

\* what the second call does when GitHub answers it
SecondCallAnswered ==
    \A c \in Callers :
        /\ SecondBegins(c) => LeavesRepository
        /\ (SecondCall(c) /\ calls[c].fetched # 0) => (NothingToUpdate /\ LeavesRepository)
        /\ (SecondCall(c) /\ calls[c].fetched = 0) => (updateResult'.error = "github" /\ LeavesRepository)

\* C25: after a call that returned updated = true, a second call with the
\* remote head unchanged and the clone untouched, and whose request to GitHub
\* is answered, pulls nothing, returns updated = false without an error and
\* leaves the repository and the saved SHA as they were; when the request
\* fails it returns the error of the request and still changes nothing
C25_IdempotentWhenFetched == [][SecondCallAnswered]_vars

\* a second call has returned that there was nothing to do
C25_Witness ==
    /\ updateResult.second
    /\ ~updateResult.updated
    /\ updateResult.error = "none"
    /\ ~updateResult.pulled
    /\ updateResult.currentSha = 2


(***************************************************************************)
(* What a call of checkAndUpdate returns and saves.                        *)
(***************************************************************************)

\* the call of c returns in this step
Returns(c) == (BeginUpdate(c) /\ calls'[c].pc = "idle") \/ FinishUpdate(c)

\* what holds of the step in which the call of c returns
ReturnsAsItSaves(c) ==
    /\ updateResult'.updated =>
        /\ FinishUpdate(c)
        /\ calls[c].fetched # 0
        /\ calls[c].fetched # localSha
        /\ updateResult'.pulled
        /\ online
        /\ localSha' = remoteSha
        /\ savedSha' = calls[c].fetched
        /\ updateResult'.error = "none"
    /\ ~updateResult'.updated => savedSha' = savedSha
    /\ (BeginUpdate(c) /\ ~hasWhatsmeowRepo(whatsmeowDir')) =>
        (~updateResult'.updated /\ updateResult'.error = "ensure")
    /\ (BeginUpdate(c) /\ hasWhatsmeowRepo(whatsmeowDir') /\ ~isGitRepository(whatsmeowDir')) =>
        (~updateResult'.updated /\ updateResult'.error = "notgit")
    /\ (FinishUpdate(c) /\ calls[c].fetched = 0) =>
        (~updateResult'.updated /\ updateResult'.error = "github")
    /\ (FinishUpdate(c) /\ calls[c].fetched # 0 /\ calls[c].fetched # localSha /\ ~(online /\ isGitRepository(whatsmeowDir))) =>
        (~updateResult'.updated /\ updateResult'.error = "pull" /\ localSha' = localSha)

\* a step of the call of c
StepOfCall(c) == BeginUpdate(c) \/ FinishUpdate(c)

\* ensureRepository, at the beginning of the call of c, has cloned the
\* repository and saved the HEAD of the clone, which is the head of GitHub
SavesHeadOfClone(c) ==
    /\ BeginUpdate(c)
    /\ ~hasWhatsmeowRepo(whatsmeowDir)
    /\ whatsmeowDir' = "repo"
    /\ savedSha' = remoteSha
    /\ localSha' = remoteSha

\* C30, as stated: a call writes the saved-SHA file only when it returns
\* updated = true
C30_AsStated ==
    [][\A c \in Callers : (StepOfCall(c) /\ savedSha' # savedSha) => updateResult'.updated]_vars

\* what holds of every step of the call of c
SavesAsItReturns(c) ==
    /\ Returns(c) => ReturnsAsItSaves(c)
    /\ (StepOfCall(c) /\ savedSha' # savedSha) => (updateResult'.updated \/ SavesHeadOfClone(c))

\* C30: a call returns updated = true only when the fetched SHA differed from
\* HEAD and the pull succeeded, and it writes the fetched SHA to the
\* saved-SHA file in that case only; when the repository cannot be ensured,
\* the directory is not a git repository, the commit cannot be fetched or the
\* pull fails, it returns updated = false with an error and its return leaves
\* the saved SHA as it was.  The one other write of the file in a call is
\* that of ensureRepository when it has just cloned the repository: it saves
\* the HEAD of the clone, whatever the call returns afterwards.
C30_SavedOnlyWhenUpdated == [][\A c \in Callers : SavesAsItReturns(c)]_vars

\* a call has pulled and returned updated = true, the fetched SHA saved
C30_Witness ==
    /\ updateResult.updated
    /\ updateResult.pulled
    /\ savedSha = updateResult.currentSha
    /\ updateResult.previousSha # updateResult.currentSha

\* a call has returned the failure of the pull, the saved SHA behind GitHub
C30_PullFailedWitness ==
    /\ updateResult.error = "pull"
    /\ ~updateResult.updated
    /\ savedSha # remoteSha


(***************************************************************************)
(* SpecList: listGoFiles on trees three levels deep, with hidden and       *)
(* vendor directories at each level, hidden files, tests, other files,     *)
(* symbolic links and a directory whose name ends in .go.                  *)
(***************************************************************************)

\* the number of entries of the root directory
MaxRootEntries == 2

\* an entry that is neither a directory nor a regular file
LinkEntry(name) ==
    [name |-> name, type |-> "link", children |-> <<>>, content |-> "", readable |-> TRUE]

LeafEntries ==
    {FileEntry("a.go", "", TRUE), FileEntry(".a.go", "", TRUE), FileEntry("a_test.go", "", TRUE),
     FileEntry("a.txt", "", TRUE), LinkEntry("b.go")}

InnerEntries ==
    {DirEntry(name, children) :
        name \in {"ab", ".git", "vendor", "d.go"},
        children \in {<<>>, <<FileEntry("a.go", "", TRUE)>>, <<FileEntry("a_test.go", "", TRUE)>>}}

OuterEntries ==
    {DirEntry(name, <<DirEntry(inner, <<FileEntry("a.go", "", TRUE)>>)>>) :
        name \in {"ab", ".git", "vendor"}, inner \in {"ab", ".git", "vendor", "d.go"}}

RootEntries == LeafEntries \cup InnerEntries \cup OuterEntries

\* the entries of a directory have different names
DistinctNames(entries) ==
    \A i, j \in 1..Len(entries) : entries[i].name = entries[j].name => i = j

ListTrees ==
    {NoTree} \cup
    {RootDir(entries) : entries \in {es \in UNION {[1..n -> RootEntries] : n \in 0..MaxRootEntries} : DistinctNames(es)}}

ListInit ==
    /\ fs \in ListTrees
    /\ cachedTypes = NullCache
    /\ scans = 0
    /\ reads = 0
    /\ lastCall = NoCall
    /\ NoUpdater
    /\ NoScan

\* a call of listGoFiles on the root
ListGoFiles ==
    /\ lastCall' = [NoCall EXCEPT !.op = "listGoFiles", !.tree = fs, !.result = listGoFiles(fs)]
    /\ UNCHANGED <<fs, cachedTypes, scans, reads, scanVars, updaterVars>>

ListNext == ListGoFiles

SpecList == ListInit /\ [][ListNext]_vars

\* a directory the walk may enter, by the claim: not hidden, not vendor
IsOpenDirectory(name) == At(name, 1) # "." /\ name # "vendor"

\* the name ends in .go and not in _test.go
HasGoName(name) ==
    /\ Len(name) >= 3
    /\ SubSeq(name, Len(name) - 2, Len(name)) = ".go"
    /\ ~(Len(name) >= 8 /\ SubSeq(name, Len(name) - 7, Len(name)) = "_test.go")

\* the paths of the regular files under entries that pass the test of names,
\* reached through open directories only (open: the directories down to here
\* are)
RECURSIVE RegularFilesUnder(_, _, _, _)
RegularFilesUnder(entries, dirPath, open, hiddenToo) ==
    IF entries = <<>> THEN {}
    ELSE LET entry == Head(entries)
             fullPath == IF dirPath = "" THEN entry.name ELSE dirPath \o "/" \o entry.name
         IN  (IF entry.type = "dir"
              THEN RegularFilesUnder(entry.children, fullPath, open /\ IsOpenDirectory(entry.name), hiddenToo)
              ELSE IF /\ entry.type = "file"
                      /\ open
                      /\ HasGoName(entry.name)
                      /\ (hiddenToo \/ At(entry.name, 1) # ".")
              THEN {fullPath}
              ELSE {})
                 \cup RegularFilesUnder(Tail(entries), dirPath, open, hiddenToo)

\* the paths of a result of listGoFiles
PathsOf(files) == {files[i].path : i \in 1..Len(files)}

Listed == lastCall.op = "listGoFiles"

\* C26, as stated: the collector returns exactly the regular files named
\* *.go and not *_test.go that are reached through directories neither hidden
\* nor vendor
C26_AsStated ==
    Listed => PathsOf(lastCall.result) = RegularFilesUnder(lastCall.tree.entries, "", TRUE, TRUE)

\* C26: the collector returns, each once, exactly the regular files named
\* *.go and not *_test.go, whose own name does not start with '.', that are
\* reached through directories neither hidden nor vendor; nothing under a
\* hidden or vendor directory; and the empty sequence when the root does not
\* exist
C26_ListsVisibleSources ==
    Listed =>
        /\ PathsOf(lastCall.result) = RegularFilesUnder(lastCall.tree.entries, "", TRUE, FALSE)
        /\ Cardinality(PathsOf(lastCall.result)) = Len(lastCall.result)
        /\ ~lastCall.tree.exists => lastCall.result = <<>>

\* the collector has returned ab/d.go/a.go and passed over a hidden file
C26_Witness ==
    /\ Listed
    /\ PathsOf(lastCall.result) = {"ab/d.go/a.go"}
    /\ \E i \in 1..Len(lastCall.tree.entries) : lastCall.tree.entries[i].name = ".a.go"

\* the collector has been asked for a root that does not exist
C26_MissingRootWitness == Listed /\ ~lastCall.tree.exists /\ lastCall.result = <<>>


(***************************************************************************)
(* SpecDoc: the scan of files in which a declaration follows comments,     *)
(* blank lines and code in every arrangement.                              *)
(***************************************************************************)
MaxDocLines == 4

DocVocabulary ==
    {"", "// a", "\t// b", "/* c */", "var y = 1 /* d */", "y := 1", "type Bar = string"}

DocInit ==
    /\ lines \in UNION { [1..n -> DocVocabulary] : n \in 1..MaxDocLines }
    /\ index = 0
    /\ results = <<>>
    /\ visited = {}
    /\ fs = NoTree
    /\ cachedTypes = NullCache
    /\ scans = 0
    /\ reads = 0
    /\ lastCall = NoCall
    /\ NoUpdater

SpecDoc == DocInit /\ [][ScanNext]_vars

\* what the walk keeps of a line it takes for a comment
CommentText(line) ==
    CASE line = "// a" -> "a"
      [] line = "\t// b" -> "b"
      [] line = "/* c */" -> "c"
      [] line = "var y = 1 /* d */" -> "var y = 1 /* d"
      [] OTHER -> ""

\* the walk takes for a comment every line that, trimmed, starts with // or
\* /* or *, or ends with */: a line of code that ends in a block comment too
TakenForComment(line) == CommentText(line) # ""

\* the first line index of the run of comment lines that ends at line index last
RECURSIVE RunStart(_, _)
RunStart(ls, last) ==
    IF last >= 1 /\ TakenForComment(LineAt(ls, last - 1)) THEN RunStart(ls, last - 1) ELSE last

\* the texts of the comment lines first..last, in source order, joined by
\* single spaces
RECURSIVE RunText(_, _, _)
RunText(ls, first, last) ==
    IF first = last THEN CommentText(LineAt(ls, first))
    ELSE CommentText(LineAt(ls, first)) \o " " \o RunText(ls, first + 1, last)

\* the documentation of the declaration at line index i when blanks blank
\* lines stand between it and the comment line above
DocumentationAcross(ls, i, blanks) ==
    LET last == i - 1 - blanks
    IN  IF last >= 0 /\ TakenForComment(LineAt(ls, last))
        THEN RunText(ls, RunStart(ls, last), last)
        ELSE UNDEFINED

\* the number of blank lines directly above line index i
RECURSIVE BlanksAbove(_, _)
BlanksAbove(ls, i) ==
    IF i >= 1 /\ LineAt(ls, i - 1) = "" THEN 1 + BlanksAbove(ls, i - 1) ELSE 0

\* the step scans a declaration
ScansDeclaration == index < Len(lines) /\ LineAt(lines, index) = "type Bar = string"

\* the documentation the step gives the declaration
GivenDocumentation == results'[Len(results')].docs

\* the step bridges at most one blank line
BridgesOneBlank ==
    ScansDeclaration =>
        /\ Len(results') = Len(results) + 1
        /\ GivenDocumentation =
               IF BlanksAbove(lines, index) <= 1
               THEN DocumentationAcross(lines, index, BlanksAbove(lines, index))
               ELSE UNDEFINED

\* C27, as stated: the comment run directly above the declaration, or above
\* exactly one blank line, is its documentation; a comment two or more blank
\* lines away is not associated
C27_AsStated == [][BridgesOneBlank]_vars

\* the step bridges every blank line above the declaration
BridgesBlanks ==
    ScansDeclaration =>
        /\ Len(results') = Len(results) + 1
        /\ GivenDocumentation = DocumentationAcross(lines, index, BlanksAbove(lines, index))

\* C27: walking backward from a declaration, the blank lines directly above
\* it are passed over, however many; the contiguous run of comment lines
\* above them is collected in source order and joined with single spaces; a
\* blank line above a comment of the run, or a line that is no comment, ends
\* the walk; with no comment there the declaration has no documentation
C27_BridgesEveryBlank == [][BridgesBlanks]_vars

\* a declaration two blank lines below a comment has been given the comment
C27_Witness ==
    /\ lines = <<"// a", "", "", "type Bar = string">>
    /\ Len(results) = 1
    /\ results[1].docs = "a"

\* a blank line inside the comments has ended the walk, the order is the source's
C27_RunWitness ==
    /\ lines = <<"// a", "\t// b", "/* c */", "type Bar = string">>
    /\ Len(results) = 1
    /\ results[1].docs = "a b c"


(***************************************************************************)
(* SpecSignature: the scan of a function or method whose parameters are    *)
(* written one a line, on more lines than the signature loop reads.        *)
(***************************************************************************)

\* the number of parameter lines
MaxParameters == 14

SignatureStarts == {"func Run(", "func (c *C) Send("}

ParameterLines == {"\ta int,", "\tg func()"}

SignatureTails == {<<>>, <<")">>, <<") error {">>, <<"\tb int) (int, error)">>, <<"\tb int) error {", "}">>}

SignatureFiles ==
    {<<start>> \o [i \in 1..n |-> parameter] \o tail :
        start \in SignatureStarts, n \in 0..MaxParameters,
        parameter \in ParameterLines, tail \in SignatureTails}

SignatureInit ==
    /\ lines \in SignatureFiles
    /\ index = 0
    /\ results = <<>>
    /\ visited = {}
    /\ fs = NoTree
    /\ cachedTypes = NullCache
    /\ scans = 0
    /\ reads = 0
    /\ lastCall = NoCall
    /\ NoUpdater

SpecSignature == SignatureInit /\ [][ScanNext]_vars

\* the capture that starts at line index s stops at line index j: the line
\* holds a brace, or the parentheses opened since s are closed and the line
\* ends in ')', or j is the last of limit lines, or the file ends
StopsSignature(ls, s, j, limit) ==
    \/ \E k \in 1..Len(LineAt(ls, j)) : SubSeq(LineAt(ls, j), k, k) = "{"
    \/ /\ Balance(ls, s, j, "(", ")") <= 0
       /\ SubSeq(LineAt(ls, j), Len(LineAt(ls, j)), Len(LineAt(ls, j))) = ")"
    \/ j - s + 1 >= limit
    \/ j = Len(ls) - 1

\* the first line index at which the capture from s stops
SignatureLast(ls, s, limit) ==
    CHOOSE j \in s..(Len(ls) - 1) :
        /\ StopsSignature(ls, s, j, limit)
        /\ \A k \in s..(j - 1) : ~StopsSignature(ls, s, k, limit)

\* the step scans the first line of a function or a method
ScansFunction == index < Len(lines) /\ LineAt(lines, index) \in SignatureStarts

\* the step emits the function with the lines up to the first stop, trimmed
\* and joined by spaces, at most limit of them
CapturesUpTo(limit) ==
    ScansFunction =>
        /\ Len(results') = Len(results) + 1
        /\ results'[Len(results')].kind \in {"function", "method"}
        /\ results'[Len(results')].signature =
               Join(TrimAll(SubSeq(lines, index + 1, SignatureLast(lines, index, limit) + 1)), " ")
        /\ SignatureLast(lines, index, limit) - index + 1 <= limit

\* C28, as stated: the signature spans at most 12 lines: the capture stops at
\* the first line with a brace, or the first line where the parentheses are
\* closed and that ends in ')', or after 12 lines
C28_AsStated == [][CapturesUpTo(12)]_vars

\* C28: the signature spans at most 14 lines: the capture stops at the first
\* line with a brace, or the first line where the parentheses are closed and
\* that ends in ')', or after 14 lines, or at the end of the file, whichever
\* comes first
C28_AtMostFourteenLines == [][CapturesUpTo(14)]_vars

\* a function of fifteen lines has been captured up to its fourteenth
C28_Witness ==
    /\ Len(lines) = 15
    /\ lines[1] = "func Run("
    /\ lines[2] = "\ta int,"
    /\ lines[15] = ")"
    /\ Len(results) = 1
    /\ results[1].signature = "func Run( a int, a int, a int, a int, a int, a int, a int, a int, a int, a int, a int, a int, a int,"


(***************************************************************************)
(* SpecBlock: the scan of files in which blocks in braces and blocks in    *)
(* parentheses open, close, close and reopen on one line, close too often, *)
(* or never close.                                                         *)
(***************************************************************************)
MaxBlockLines == 4

BlockVocabulary ==
    {"type Ab interface {", "type Cd interface { Run() }", "const (", "}", ")",
     "} {", ") (", "))", "\tA = ("}

BlockInit ==
    /\ lines \in UNION { [1..n -> BlockVocabulary] : n \in 1..MaxBlockLines }
    /\ index = 0
    /\ results = <<>>
    /\ visited = {}
    /\ fs = NoTree
    /\ cachedTypes = NullCache
    /\ scans = 0
    /\ reads = 0
    /\ lastCall = NoCall
    /\ NoUpdater

SpecBlock == BlockInit /\ [][ScanNext]_vars

\* the delimiter that opens the block a line starts, "" for a line that
\* starts none
OpenOf(line) ==
    CASE line \in {"type Ab interface {", "type Cd interface { Run() }"} -> "{"
      [] line = "const (" -> "("
      [] OTHER -> ""

CloseOf(open) == IF open = "{" THEN "}" ELSE ")"

\* the balance after the first p characters of line index k, counted from the
\* beginning of line index s
BalanceWithin(ls, s, k, p, open) ==
    Balance(ls, s, k - 1, open, CloseOf(open))
        + CountChar(SubSeq(LineAt(ls, k), 1, p), open)
        - CountChar(SubSeq(LineAt(ls, k), 1, p), CloseOf(open))

\* the balance counted from line index s has been positive by the end of line
\* index j
HasBeenPositive(ls, s, j, open) ==
    \E k \in s..j : \E p \in 1..Len(LineAt(ls, k)) : BalanceWithin(ls, s, k, p, open) > 0

\* the balance counted from line index s is back to zero at the end of line
\* index j
BackToZero(ls, s, j, open) ==
    /\ Balance(ls, s, j, open, CloseOf(open)) = 0
    /\ HasBeenPositive(ls, s, j, open)

\* the line index at which the block that starts at line index s ends: the
\* first at whose end the balance is back to zero, the last of the file when
\* there is none
BlockEnd(ls, s, open) ==
    IF \E j \in s..(Len(ls) - 1) : BackToZero(ls, s, j, open)
    THEN CHOOSE j \in s..(Len(ls) - 1) :
             /\ BackToZero(ls, s, j, open)
             /\ \A k \in s..(j - 1) : ~BackToZero(ls, s, k, open)
    ELSE Len(ls) - 1

\* the step scans the line that opens a block
ScansBlock == index < Len(lines) /\ OpenOf(LineAt(lines, index)) # ""

\* what the step shows of the block captured at its line: the scan goes on
\* after endLine, and an interface carries the text of the block
CapturesBlock ==
    ScansBlock =>
        /\ index' = BlockEnd(lines, index, OpenOf(LineAt(lines, index))) + 1
        /\ OpenOf(LineAt(lines, index)) = "{" =>
            /\ Len(results') = Len(results) + 1
            /\ results'[Len(results')].fullSignature =
                   Join(SubSeq(lines, index + 1, BlockEnd(lines, index, "{") + 1), "\n")

\* C29: the block captured at a line that opens one, in braces or in
\* parentheses, ends at the first line, at or after that line, at whose end
\* the balance counted from that line is back to zero after having been
\* positive, and its text is the lines from the first to that one joined by
\* newlines; the delimiters of the lines above the first are not counted; when
\* the file ends first, the block is every line from the first and ends at
\* the last line of the file
C29_BlockEndsAtBalance == [][CapturesBlock]_vars

\* a block closed and reopened on one line has been captured to the line that
\* closes it for good, below a closing brace that was not counted
C29_Witness ==
    /\ lines = <<"}", "type Ab interface {", "} {", "}">>
    /\ Len(results) = 1
    /\ results[1].fullSignature = "type Ab interface {\n} {\n}"
    /\ index = 4

\* a block in parentheses that the file never closes has been captured to the
\* last line
C29_TruncatedWitness ==
    /\ lines = <<"const (", "))", ") (">>
    /\ visited = {0}
    /\ index = 3

\* a block in parentheses closed once too often has been captured to the line
\* that brings the balance back to zero
C29_ReopenedWitness ==
    /\ lines = <<"const (", "))", "\tA = (", ")">>
    /\ visited = {0}
    /\ index = 3

====
